---- MODULE Spec2Model ----
(***************************************************************************)
(* Inspection rounds of routes/inspection.py: start_round, upload_images,  *)
(* run_analyze, backfill_recommendations and patch_recommendation over the *)
(* MySQL tables zone_inspection, zone_inspection_image,                    *)
(* zone_inspection_finding and zone_inspection_recommendation.             *)
(*                                                                         *)
(* The store: every request works on its own connection with autocommit    *)
(* off (config/database.py:44).  A statement reads the committed tables    *)
(* and the writes of its own transaction; its writes reach the committed   *)
(* tables at conn.commit() and are dropped by conn.rollback() or when the  *)
(* connection is closed without a commit.  The code takes no lock, so a    *)
(* step of one request may run between any two statements of another       *)
(* (server.py:368 runs Flask with threaded=True).                          *)
(*                                                                         *)
(* Numbers: a classifier confidence c in [0,1] is the integer c * 10^5; a  *)
(* percentage x is the integer x * 10^5.                                   *)
(***************************************************************************)
EXTENDS Integers, Sequences, FiniteSets, TLC

\* ---------------------------------------------------------------- constants
STATUS_OPEN == "pending"
STATUS_DONE == "completed"
MAX_IMAGES_PER_ROUND == 5
MAX_FILE_BYTES == 20971520
ALLOWED_EXTS == {"jpg", "jpeg", "png", "bmp", "webp"}
NORMAL_TOKENS == {"normal", "nomal", "healthy", "none"}

\* ------------------------------------------------------------------- bounds
\* requests begun in one behaviour, with threaded serving
MaxReqs == 4
\* requests begun in one behaviour, served one at a time
MaxSeqReqs == 5
\* rows of zone_inspection
MaxRounds == 3
\* predictions the classifier returns in one run of the aggregation loops
MaxPreds == 3
\* requests to the detect routes begun in one behaviour
MaxCalls == 4
\* requests begun, with threaded serving, on a round already analysed
MaxRecReqs == 2

\* the worker threads that serve requests
Procs == {1, 2}
\* the users that hold a token
Users == {1, 2}

\* SQL NULL of a string column, of an id column
NULL == "NULL"
NoId == 0
\* Python's None of a module variable
None == "None"
\* _MODEL is None
NoModel == 0

\* variant: the owner check compares with the wrong user
field_of_user_2 == (1 :> 2) @@ (2 :> 2)

\* field and zone reference rows: field_id -> user_id, zone_id -> field_id
field == (1 :> 1) @@ (2 :> 2)
zone == (1 :> 1) @@ (2 :> 2)

Max(S) == CHOOSE x \in S : \A y \in S : y <= x
Min(a, b) == IF a <= b THEN a ELSE b
Range(s) == {s[i] : i \in DOMAIN s}

VARIABLES
    serving,    \* "threaded" or "serial": how the server runs its requests
    rounds,     \* zone_inspection: inspection_id -> row
    images,     \* zone_inspection_image: inspection_id -> its rows' files,
                \* in image_id order
    findings,   \* zone_inspection_finding: set of rows
    recs,       \* zone_inspection_recommendation: recommendation_id -> row
    nextFinding,\* AUTO_INCREMENT of zone_inspection_finding
    pc,         \* where each worker's request stands
    req,        \* the request a worker serves
    loc,        \* the handler's local variables and uncommitted writes
    resp,       \* the response a worker has produced
    nreq,       \* requests begun
    lastRun,    \* per round: the last committed analyze (observer)
    _MODEL,     \* detect.py: the cached model object, None before a load
    _MODEL_NAMES, \* detect.py: the class-name table of the model
    _DEVICE,    \* detect.py: the device picked for inference
    loads       \* models constructed by YOLO(model_path) (observer)

vars == <<serving, rounds, images, findings, recs, nextFinding, pc, req, loc,
          resp, nreq, lastRun, _MODEL, _MODEL_NAMES, _DEVICE, loads>>

\* the module state of detect.py
detect == <<_MODEL, _MODEL_NAMES, _DEVICE, loads>>

store == <<rounds, images, findings, recs, nextFinding>>

\* ----------------------------------------------------------- request records
NoReq == [op |-> "none", uid |-> 0, field_id |-> 0, zone_id |-> 0,
          new_round |-> FALSE, inspection_id |-> 0, files |-> <<>>,
          rec_id |-> 0, status |-> "", applied_date |-> ""]

NoLoc == [exist |-> NoId, next_round |-> 0, already |-> 0, saved |-> <<>>,
          imgs |-> <<>>, results |-> <<>>, valid_codes |-> {}, agg |-> <<>>,
          skipped_normal |-> 0, unknown_labels |-> <<>>, del_ids |-> {},
          ferts |-> <<>>, rec_ops |-> <<>>, m |-> 0, model |-> 0,
          device |-> None]

NoResp == [code |-> 0, error |-> "", idempotent |-> FALSE,
           inspection_id |-> 0, round_no |-> 0, saved |-> <<>>,
           quota_remain |-> 0, skipped |-> 0, findings |-> <<>>,
           skipped_normal |-> 0, unknown_labels |-> <<>>,
           updated_codes |-> <<>>, exist |-> 0, max |-> 0, labels |-> None,
           classes |-> ""]

NoRun == [valid |-> FALSE, imgs |-> <<>>, results |-> <<>>, findings |-> {},
          n_findings |-> 0, n_recs |-> 0]

\* variant: the error is answered with the code of success
ErrorResp_success(c, e) == [NoResp EXCEPT !.code = 200, !.error = e]

ErrorResp(c, e) == [NoResp EXCEPT !.code = c, !.error = e]

\* a request may begin: the budget of the serving mode is not used up, and
\* serial serving runs one request at a time on worker 1
CanBegin(p) ==
    /\ pc[p] = "idle"
    /\ IF serving = "serial"
       THEN p = 1 /\ nreq < MaxSeqReqs
       ELSE IF serving = "analysed"
       THEN nreq < MaxRecReqs
       ELSE nreq < MaxReqs

Finish(p, r) ==
    /\ pc' = [pc EXCEPT ![p] = "done"]
    /\ resp' = [resp EXCEPT ![p] = r]

Goto(p, label) ==
    /\ pc' = [pc EXCEPT ![p] = label]
    /\ UNCHANGED resp

\* ------------------------------------------------------------ start_round
\* the (uid, field_id, zone_id, new_round) of the start requests tried
StartArgs ==
    {<<1, 1, 1, FALSE>>, <<1, 1, 1, TRUE>>, <<1, 1, 2, FALSE>>,
     <<2, 1, 1, TRUE>>, <<1, 3, 1, FALSE>>, <<2, 1, 0, FALSE>>}

RoundIds == DOMAIN rounds

\* variant: the lookup filters on the closed status
OpenRound_closed(f, z) ==
    LET S == {i \in RoundIds : /\ rounds[i].field_id = f
                               /\ rounds[i].zone_id = z
                               /\ rounds[i].status = STATUS_DONE}
    IN IF S = {} THEN NoId ELSE Max(S)

\* SELECT ... WHERE field_id AND zone_id AND status=STATUS_OPEN
\* ORDER BY inspection_id DESC LIMIT 1
OpenRound(f, z) ==
    LET S == {i \in RoundIds : /\ rounds[i].field_id = f
                               /\ rounds[i].zone_id = z
                               /\ rounds[i].status = STATUS_OPEN}
    IN IF S = {} THEN NoId ELSE Max(S)

\* SELECT MAX(round_no) ... WHERE field_id AND zone_id, "or 0"
MaxRoundNo(f, z) ==
    LET S == {rounds[i].round_no : i \in {j \in RoundIds :
                  rounds[j].field_id = f /\ rounds[j].zone_id = z}}
    IN IF S = {} THEN 0 ELSE Max(S)

\* the request arrives; owner check and the lookup of the open round
start_round(p) ==
    /\ CanBegin(p)
    /\ \E a \in StartArgs :
        LET r == [NoReq EXCEPT !.op = "start", !.uid = a[1], !.field_id = a[2],
                               !.zone_id = a[3], !.new_round = a[4]]
            exist == OpenRound(a[2], a[3])
        IN /\ req' = [req EXCEPT ![p] = r]
           /\ nreq' = nreq + 1
           /\ loc' = [loc EXCEPT ![p] = [NoLoc EXCEPT !.exist = exist]]
           /\ IF a[2] = 0 \/ a[3] = 0
              THEN Finish(p, ErrorResp(400, "missing_params"))
              ELSE IF a[2] \notin DOMAIN field
              THEN Finish(p, ErrorResp(404, "field_not_found"))
              ELSE IF field[a[2]] # a[1]
              THEN Finish(p, ErrorResp(403, "forbidden"))
              ELSE IF exist # NoId /\ ~a[4]
              THEN Finish(p, [NoResp EXCEPT !.code = 200, !.idempotent = TRUE,
                                  !.inspection_id = exist,
                                  !.round_no = rounds[exist].round_no])
              ELSE IF exist # NoId
              THEN Goto(p, "start_close")
              ELSE Goto(p, "start_max")
    /\ UNCHANGED <<serving, detect, store, lastRun>>

\* variant: the UPDATE matches no row
CloseRound_noop(rs, id) == rs

\* variant: the UPDATE has no WHERE inspection_id
CloseRound_every_open(rs, id) ==
    [i \in DOMAIN rs |->
        IF rs[i].status = STATUS_OPEN
        THEN [rs[i] EXCEPT !.status = STATUS_DONE]
        ELSE rs[i]]

\* UPDATE zone_inspection SET status=STATUS_DONE
\* WHERE inspection_id=exist AND status=STATUS_OPEN
CloseRound(rs, id) ==
    [i \in DOMAIN rs |->
        IF i = id /\ rs[i].status = STATUS_OPEN
        THEN [rs[i] EXCEPT !.status = STATUS_DONE]
        ELSE rs[i]]

\* the UPDATE that closes the open round, and its conn.commit()
start_round_close(p) ==
    /\ pc[p] = "start_close"
    /\ rounds' = CloseRound(rounds, loc[p].exist)
    /\ Goto(p, "start_max")
    /\ UNCHANGED <<serving, detect, images, findings, recs, nextFinding, req, loc,
                   nreq, lastRun>>

\* SELECT MAX(round_no); next_round = max + 1
start_round_max(p) ==
    /\ pc[p] = "start_max"
    /\ loc' = [loc EXCEPT ![p].next_round =
                   MaxRoundNo(req[p].field_id, req[p].zone_id) + 1]
    /\ Goto(p, "start_insert")
    /\ UNCHANGED <<serving, detect, store, req, nreq, lastRun>>

NewRound(f, z, n) ==
    [field_id |-> f, zone_id |-> z, round_no |-> n, status |-> STATUS_OPEN]

\* INSERT INTO zone_inspection, conn.commit(), the response
start_round_insert(p) ==
    /\ pc[p] = "start_insert"
    /\ Len(rounds) < MaxRounds
    /\ rounds' = Append(rounds, NewRound(req[p].field_id, req[p].zone_id,
                                         loc[p].next_round))
    /\ Finish(p, [NoResp EXCEPT !.code = 200, !.idempotent = FALSE,
                      !.inspection_id = Len(rounds) + 1,
                      !.round_no = loc[p].next_round])
    /\ UNCHANGED <<serving, detect, images, findings, recs, nextFinding, req, loc,
                   nreq, lastRun>>

\* a statement of start_round raises mysql.connector.Error:
\* conn.rollback() and the 500 response
start_round_error(p) ==
    /\ pc[p] \in {"start_close", "start_max", "start_insert"}
    /\ Finish(p, ErrorResp(500, "db_error"))
    /\ UNCHANGED <<serving, detect, store, req, loc, nreq, lastRun>>

\* ---------------------------------------------------------- upload_images
\* the files a client may send: filename -> (extension after the last dot,
\* size in bytes)
Files == {"k.JPG", "n.png", "h.webp", "x.gif", "big.jpg"}
FileExt(f) ==
    CASE f = "k.JPG" -> "JPG"
      [] f = "n.png" -> "png"
      [] f = "h.webp" -> "webp"
      [] f = "x.gif" -> "gif"
      [] f = "big.jpg" -> "jpg"
FileSize(f) == IF f = "big.jpg" THEN MAX_FILE_BYTES + 1 ELSE 4096

\* str.lower() on the strings of the model
Lower(s) ==
    CASE s = "JPG" -> "jpg"
      [] s = "Potassium" -> "potassium"
      [] s = "Nitrogen" -> "nitrogen"
      [] s = "Magnesium" -> "magnesium"
      [] s = "Phosphorus" -> "phosphorus"
      [] s = "Boron" -> "boron"
      [] s = "Healthy" -> "healthy"
      [] s = "POTASSIUM" -> "potassium"
      [] s = "None" -> "none"
      [] s = "K" -> "k"
      [] s = "N" -> "n"
      [] s = "P" -> "p"
      [] s = "Mg" -> "mg"
      [] s = "MOP" -> "mop"
      [] s = "Urea 46" -> "urea 46"
      [] s = "Compost" -> "compost"
      [] s = "Dolomite" -> "dolomite"
      [] OTHER -> s

_ext_ok(filename) == Lower(FileExt(filename)) \in ALLOWED_EXTS

\* the batches (request.files, in submission order) of the upload requests
Batches ==
    {<<"k.JPG">>, <<"k.JPG", "n.png", "h.webp">>,
     <<"n.png", "k.JPG", "h.webp", "n.png">>, <<"n.png", "x.gif">>,
     <<"big.jpg">>, <<>>}

\* (uid, files) of the upload requests tried
UploadArgs ==
    {<<1, b>> : b \in Batches} \cup {<<2, <<"k.JPG">>>>, <<2, <<>>>>}

\* variant: the count reads no row
ImageCount_none(id) == 0

\* SELECT COUNT(*) FROM zone_inspection_image WHERE inspection_id
ImageCount(id) == IF id \in DOMAIN images THEN Len(images[id]) ELSE 0

\* files[:remain]
Take(s, n) == SubSeq(s, 1, Min(n, Len(s)))

\* variant: the quota is counted one too high
Remain_plus_one(already) ==
    IF MAX_IMAGES_PER_ROUND + 1 - already > 0
    THEN MAX_IMAGES_PER_ROUND + 1 - already ELSE 0

\* remain = max(0, MAX_IMAGES_PER_ROUND - already)
Remain(already) ==
    IF MAX_IMAGES_PER_ROUND - already > 0
    THEN MAX_IMAGES_PER_ROUND - already ELSE 0

\* the request arrives; round lookup, owner and status checks, quota count
upload_images(p) ==
    /\ CanBegin(p)
    /\ \E id \in 1..MaxRounds, a \in UploadArgs :
        LET r == [NoReq EXCEPT !.op = "upload", !.uid = a[1],
                               !.inspection_id = id, !.files = a[2]]
            already == ImageCount(id)
        IN /\ req' = [req EXCEPT ![p] = r]
           /\ nreq' = nreq + 1
           /\ loc' = [loc EXCEPT ![p] = [NoLoc EXCEPT !.already = already]]
           /\ IF a[2] = <<>>
              THEN Finish(p, ErrorResp(400, "no_files"))
              ELSE IF id \notin RoundIds
              THEN Finish(p, ErrorResp(404, "not_found"))
              ELSE IF field[rounds[id].field_id] # a[1]
              THEN Finish(p, ErrorResp(403, "forbidden"))
              ELSE IF rounds[id].status # STATUS_OPEN
              THEN Finish(p, ErrorResp(400, "closed_round"))
              ELSE IF Remain(already) = 0
              THEN Finish(p, [ErrorResp(400, "quota_full") EXCEPT
                                 !.exist = already,
                                 !.max = MAX_IMAGES_PER_ROUND])
              ELSE Goto(p, "upload_save")
    /\ UNCHANGED <<serving, detect, store, lastRun>>

will_save(p) == Take(req[p].files, Remain(loc[p].already))

\* the first file of the batch that fails a check, and the response it gets
BadFile(f) == ~_ext_ok(f) \/ FileSize(f) > MAX_FILE_BYTES
FirstBad(fs) ==
    IF \E i \in DOMAIN fs : BadFile(fs[i])
    THEN CHOOSE i \in DOMAIN fs :
            BadFile(fs[i]) /\ \A j \in 1..(i - 1) : ~BadFile(fs[j])
    ELSE 0
BadFileResp(f) ==
    IF ~_ext_ok(f) THEN ErrorResp(415, "unsupported_media")
    ELSE ErrorResp(413, "payload_too_large")

\* the loop over will_save (check, f.save, INSERT, saved.append), then
\* conn.commit(); a file that fails its check ends the request before the
\* commit, with the files before it saved on disk
upload_images_save(p) ==
    /\ pc[p] = "upload_save"
    /\ LET fs == will_save(p)
           bad == FirstBad(fs)
           id == req[p].inspection_id
       IN IF bad # 0
          THEN /\ loc' = [loc EXCEPT ![p].saved = Take(fs, bad - 1)]
               /\ Finish(p, BadFileResp(fs[bad]))
               /\ UNCHANGED images
          ELSE /\ loc' = [loc EXCEPT ![p].saved = fs]
               /\ images' = [images EXCEPT ![id] = @ \o fs]
               /\ Finish(p, [NoResp EXCEPT !.code = 200, !.saved = fs,
                                 !.quota_remain = MAX_IMAGES_PER_ROUND
                                     - (loc[p].already + Len(fs)),
                                 !.skipped = Len(req[p].files) - Len(fs)])
    /\ UNCHANGED <<serving, detect, rounds, findings, recs, nextFinding, req, nreq,
                   lastRun>>

\* variant: the rows inserted before the failing statement stay
upload_images_error_keeps_rows(p) ==
    /\ pc[p] = "upload_save"
    /\ LET fs == will_save(p)
           bad == FirstBad(fs)
           last == IF bad = 0 THEN Len(fs) ELSE bad - 1
       IN \E k \in 1..last :
            /\ loc' = [loc EXCEPT ![p].saved = Take(fs, k)]
            /\ images' = [images EXCEPT ![req[p].inspection_id] =
                              @ \o Take(fs, k - 1)]
            /\ Finish(p, ErrorResp(500, "db_error"))
    /\ UNCHANGED <<serving, detect, rounds, findings, recs, nextFinding, req, nreq,
                   lastRun>>

\* the k-th INSERT of the loop (or the commit, k = all) raises
\* mysql.connector.Error after k files were saved: conn.rollback(), 500
upload_images_error(p) ==
    /\ pc[p] = "upload_save"
    /\ LET fs == will_save(p)
           bad == FirstBad(fs)
           last == IF bad = 0 THEN Len(fs) ELSE bad - 1
       IN \E k \in 1..last :
            /\ loc' = [loc EXCEPT ![p].saved = Take(fs, k)]
            /\ Finish(p, ErrorResp(500, "db_error"))
    /\ UNCHANGED <<serving, detect, store, req, nreq, lastRun>>

\* ------------------------------------------------------- label resolution
CODE_ALIASES ==
    [l \in {"n", "nitrogen", "p", "phosphorus", "k", "potassium", "mg",
            "magnesium"} |->
        CASE l \in {"n", "nitrogen"} -> "N"
          [] l \in {"p", "phosphorus"} -> "P"
          [] l \in {"k", "potassium"} -> "K"
          [] l \in {"mg", "magnesium"} -> "Mg"]

CLASS_ALIASES ==
    [l \in {"Magnesium", "Nitrogen", "Phosphorus", "Potassium"} |->
        CASE l = "Magnesium" -> "Mg"
          [] l = "Nitrogen" -> "N"
          [] l = "Phosphorus" -> "P"
          [] l = "Potassium" -> "K"]

\* str.strip() on the strings of the model
Strip(s) ==
    CASE s = " Mg " -> "Mg"
      [] s = " " -> ""
      [] OTHER -> s

\* the rows of nutrient_deficiency
NutrientCodes == {"N", "P", "K", "Mg"}

\* what _load_valid_codes can return: the codes of the table, or the empty
\* set when the connection or the SELECT fails
ValidCodeSets == {NutrientCodes, {}}

\* variant: the resolved name is returned without the whitelist test
_to_nutrient_code_unlisted(label, valid_codes) ==
    IF label = "" THEN NULL
    ELSE LET s == Strip(label)
         IN IF Lower(s) \in NORMAL_TOKENS THEN NULL
            ELSE Strip(IF Lower(s) \in DOMAIN CODE_ALIASES
                       THEN CODE_ALIASES[Lower(s)] ELSE s)

\* None when the label is empty, a normal token or outside the whitelist
_to_nutrient_code(label, valid_codes) ==
    IF label = "" THEN NULL
    ELSE LET s == Strip(label)
         IN IF Lower(s) \in NORMAL_TOKENS THEN NULL
            ELSE LET t == Strip(IF Lower(s) \in DOMAIN CODE_ALIASES
                                THEN CODE_ALIASES[Lower(s)] ELSE s)
                 IN IF t \in valid_codes THEN t ELSE NULL

\* ---------------------------------------------------------------- severity
PctUnit == 100000
SevereMin == 85
ModerateMin == 65

\* variant: the boundaries belong to the lower tier
severity_from_conf_strict(conf_pct) ==
    IF conf_pct > SevereMin * PctUnit THEN "severe"
    ELSE IF conf_pct > ModerateMin * PctUnit THEN "moderate"
    ELSE "mild"

\* the tier of a confidence percentage
severity_from_conf(conf_pct) ==
    IF conf_pct >= SevereMin * PctUnit THEN "severe"
    ELSE IF conf_pct >= ModerateMin * PctUnit THEN "moderate"
    ELSE "mild"

\* round(x, 2) of a percentage: to the nearest 0.01, halves to the even digit
Round2(x) ==
    LET step == PctUnit \div 100
        q == x \div step
        r == x % step
    IN IF 2 * r > step \/ (2 * r = step /\ q % 2 = 1)
       THEN (q + 1) * step ELSE q * step

\* --------------------------------------------------------------- classifier
\* predict_on_paths: for each image its predictions (class, confidence), in
\* the order of the paths.  The model weights are outside the repository:
\* Weights names the alternative outputs the classifier may give.
Weights == {1, 2, 3}
Pred(c, conf) == [class |-> c, confidence |-> conf]
Preds(f, w) ==
    CASE w = 1 /\ f = "k.JPG" -> <<Pred("Potassium", 92000), Pred("nomal", 60000)>>
      [] w = 1 /\ f = "n.png" -> <<Pred("Nitrogen", 70000)>>
      [] w = 1 /\ f = "h.webp" -> <<Pred("Healthy", 90000)>>
      [] w = 2 /\ f = "k.JPG" -> <<Pred("Potassium", 84999)>>
      [] w = 2 /\ f = "n.png" -> <<Pred("K", 95000), Pred("Boron", 50000)>>
      [] w = 2 /\ f = "h.webp" -> <<>>
      [] w = 3 /\ f = "k.JPG" -> <<Pred("nomal", 60000)>>
      [] w = 3 /\ f = "n.png" -> <<Pred(" Mg ", 65000), Pred("", 30000)>>
      [] w = 3 /\ f = "h.webp" -> <<Pred("Boron", 99000)>>
      [] OTHER -> <<>>
predict_on_paths(paths, w) ==
    [i \in DOMAIN paths |-> [image |-> paths[i], preds |-> Preds(paths[i], w)]]

\* -------------------------------------------------------------- aggregation
RECURSIVE Flatten(_)
\* for item in results: for p in item.preds
Flatten(results) ==
    IF results = <<>> THEN <<>>
    ELSE Head(results).preds \o Flatten(Tail(results))

AggIndex(agg, code) ==
    IF \E i \in DOMAIN agg : agg[i].code = code
    THEN CHOOSE i \in DOMAIN agg : agg[i].code = code
    ELSE 0

NoAgg == [agg |-> <<>>, skipped_normal |-> 0, unknown_labels |-> <<>>]

\* variant: an unresolved label that is not a normal token is dropped
AggStep_drops_unknown(st, pr, valid_codes) ==
    LET raw_label == Strip(pr.class)
        label_for_code == IF raw_label \in DOMAIN CLASS_ALIASES
                          THEN CLASS_ALIASES[raw_label] ELSE raw_label
        code == _to_nutrient_code(label_for_code, valid_codes)
        conf_pct == pr.confidence * 100
        entry == [code |-> code, max_conf |-> conf_pct,
                  max_sev |-> severity_from_conf(conf_pct)]
        i == AggIndex(st.agg, code)
    IN IF code = NULL
       THEN IF Lower(raw_label) \in NORMAL_TOKENS
            THEN [st EXCEPT !.skipped_normal = @ + 1]
            ELSE st
       ELSE IF i = 0
       THEN [st EXCEPT !.agg = Append(@, entry)]
       ELSE IF conf_pct > st.agg[i].max_conf
       THEN [st EXCEPT !.agg[i] = entry]
       ELSE st

\* one pass of the loop body of run_analyze over a prediction
AggStep(st, pr, valid_codes) ==
    LET raw_label == Strip(pr.class)
        label_for_code == IF raw_label \in DOMAIN CLASS_ALIASES
                          THEN CLASS_ALIASES[raw_label] ELSE raw_label
        code == _to_nutrient_code(label_for_code, valid_codes)
        conf_pct == pr.confidence * 100
        entry == [code |-> code, max_conf |-> conf_pct,
                  max_sev |-> severity_from_conf(conf_pct)]
        i == AggIndex(st.agg, code)
    IN IF code = NULL
       THEN IF Lower(raw_label) \in NORMAL_TOKENS
            THEN [st EXCEPT !.skipped_normal = @ + 1]
            ELSE [st EXCEPT !.unknown_labels = Append(@, raw_label)]
       ELSE IF i = 0
       THEN [st EXCEPT !.agg = Append(@, entry)]
       ELSE IF conf_pct > st.agg[i].max_conf
       THEN [st EXCEPT !.agg[i] = entry]
       ELSE st

RECURSIVE AggFold(_, _, _)
AggFold(st, ps, valid_codes) ==
    IF ps = <<>> THEN st
    ELSE AggFold(AggStep(st, Head(ps), valid_codes), Tail(ps), valid_codes)

\* agg, skipped_normal and unknown_labels after the loops of run_analyze
Aggregate(results, valid_codes) == AggFold(NoAgg, Flatten(results), valid_codes)

\* ------------------------------------------------- _upsert_recommendations
Fert(id, name, form, desc) ==
    [fertilizer_id |-> id, fert_name |-> name, formulation |-> form,
     description |-> desc]

\* the contents the fertilizer table may have when a request reads it
FertTables ==
    {<<Fert(1, "Urea 46", "46-0-0", "Urea: split into two doses"),
       Fert(2, "MOP", " 0-0-60 ", " "),
       Fert(4, "Urea 46", NULL, "Urea: one dose")>>,
     <<Fert(1, "Compost", NULL, NULL),
       Fert(3, "Dolomite", "", "Dolomite: broadcast and water"),
       Fert(2, "Potash", "0-0-60", "MOP: apply around the trunk")>>}

\* t in s, for a lower-cased fertilizer name s and a rule token t
Contains(s, t) ==
    \/ s = "urea 46" /\ t = "urea"
    \/ s = "mop" /\ t = "mop"
    \/ s = "dolomite" /\ t = "dolomite"

StripForm(s) == IF s = " 0-0-60 " THEN "0-0-60" ELSE Strip(s)

\* (s or '').strip().lower()
_norm(s) == IF s = NULL THEN "" ELSE Lower(StripForm(s))

\* the rules of _match_fertilizer_id: per code, the formulations and the
\* name tokens that select a fertilizer row
RuleForms(code) ==
    CASE code = "N" -> {"46-0-0"}
      [] code = "P" -> {"18-46-0"}
      [] code = "K" -> {"0-0-60"}
      [] OTHER -> {}
RuleTokens(code) ==
    CASE code = "N" -> {"urea", "yuria"}
      [] code = "P" -> {"dap", "phosphate", "phosphorus"}
      [] code = "K" -> {"mop", "potassium chloride"}
      [] code = "Mg" -> {"dolomite", "magnesium", "kieserite"}
      [] OTHER -> {}

RuleMatches(code, r) ==
    \/ _norm(r.formulation) \in RuleForms(code)
    \/ \E t \in RuleTokens(code) : Contains(_norm(r.fert_name), t)

\* variant: the last row that a rule selects is taken
_match_fertilizer_id_last(ferts, code) ==
    IF code = "" \/ ~\E i \in DOMAIN ferts : RuleMatches(code, ferts[i])
    THEN NoId
    ELSE ferts[CHOOSE i \in DOMAIN ferts :
                 /\ RuleMatches(code, ferts[i])
                 /\ \A j \in (i + 1)..Len(ferts) : ~RuleMatches(code, ferts[j])
              ].fertilizer_id

\* the fertilizer_id of the first row, in table order, that a rule of the
\* code selects; None when there is none
_match_fertilizer_id(ferts, code) ==
    IF code = "" \/ ~\E i \in DOMAIN ferts : RuleMatches(code, ferts[i])
    THEN NoId
    ELSE ferts[CHOOSE i \in DOMAIN ferts :
                 /\ RuleMatches(code, ferts[i])
                 /\ \A j \in 1..(i - 1) : ~RuleMatches(code, ferts[j])
              ].fertilizer_id

FALLBACK_TEXT(code) ==
    IF code \in {"K", "Mg", "N", "P"} THEN "fallback text " \o code ELSE ""
RATE(code) == IF code \in {"K", "Mg", "N", "P"} THEN "rate " \o code ELSE NULL
METHOD(code) ==
    IF code \in {"K", "Mg", "N", "P"} THEN "method " \o code ELSE NULL

\* (row.description or '').strip() of the first row with the matched id
FertDesc(ferts, fert_id) ==
    LET i == CHOOSE j \in DOMAIN ferts :
                /\ ferts[j].fertilizer_id = fert_id
                /\ \A k \in 1..(j - 1) : ferts[k].fertilizer_id # fert_id
        d == ferts[i].description
    IN IF d = NULL THEN "" ELSE Strip(d)

rec_text(ferts, code) ==
    LET fert_id == _match_fertilizer_id(ferts, code)
    IN IF fert_id # NoId /\ FertDesc(ferts, fert_id) # ""
       THEN FertDesc(ferts, fert_id)
       ELSE FALLBACK_TEXT(code)

\* variant: the SELECT of the existing row does not filter on the code
ExistingRec_any_code(rs, id, code) ==
    LET S == {i \in DOMAIN rs : rs[i].inspection_id = id}
    IN IF S = {} THEN NoId ELSE Max(S)

\* SELECT recommendation_id ... WHERE inspection_id AND nutrient_code
\* ORDER BY recommendation_id DESC LIMIT 1
ExistingRec(rs, id, code) ==
    LET S == {i \in DOMAIN rs : /\ rs[i].inspection_id = id
                                /\ rs[i].nutrient_code = code}
    IN IF S = {} THEN NoId ELSE Max(S)

\* the UPDATE or INSERT that the loop of _upsert_recommendations issues for
\* one code, given the rows its SELECT sees
RecOp(ferts, rs, id, code) ==
    [recommendation_id |-> ExistingRec(rs, id, code),
     inspection_id |-> id,
     nutrient_code |-> code,
     fertilizer_id |-> _match_fertilizer_id(ferts, code),
     recommendation_text |-> rec_text(ferts, code),
     rate_per_area |-> RATE(code),
     application_method |-> METHOD(code)]

\* the statements of one call, in the order of agg
_upsert_recommendations(ferts, rs, id, agg) ==
    [i \in DOMAIN agg |-> RecOp(ferts, rs, id, agg[i].code)]

\* variant: the UPDATE writes status = 'suggested' and clears applied_date
UpdateRec_resets_status(row, op) ==
    [row EXCEPT !.fertilizer_id = op.fertilizer_id,
                !.recommendation_text = op.recommendation_text,
                !.rate_per_area = op.rate_per_area,
                !.application_method = op.application_method,
                !.status = "suggested",
                !.applied_date = NULL]

\* variant: the second argument is taken whatever the first
COALESCE_second(a, b) == b

\* SQL COALESCE: the first argument unless it is NULL
COALESCE(a, b) == IF a = NULL THEN b ELSE a

\* UPDATE ... SET fertilizer_id, recommendation_text, rate_per_area,
\* application_method, status=COALESCE(status,'suggested')
UpdateRec(row, op) ==
    [row EXCEPT !.fertilizer_id = op.fertilizer_id,
                !.recommendation_text = op.recommendation_text,
                !.rate_per_area = op.rate_per_area,
                !.application_method = op.application_method,
                !.status = COALESCE(@, "suggested")]

\* INSERT ... VALUES (..., 'suggested', NOW()); applied_date stays NULL
InsertRec(op) ==
    [inspection_id |-> op.inspection_id,
     fertilizer_id |-> op.fertilizer_id,
     nutrient_code |-> op.nutrient_code,
     recommendation_text |-> op.recommendation_text,
     rate_per_area |-> op.rate_per_area,
     application_method |-> op.application_method,
     status |-> "suggested",
     applied_date |-> NULL]

RECURSIVE ApplyRecOps(_, _)
\* the committed table after the statements of a transaction
ApplyRecOps(rs, ops) ==
    IF ops = <<>> THEN rs
    ELSE LET op == Head(ops)
             next == IF op.recommendation_id # NoId
                     THEN [rs EXCEPT ![op.recommendation_id] = UpdateRec(@, op)]
                     ELSE Append(rs, InsertRec(op))
         IN ApplyRecOps(next, Tail(ops))

\* ------------------------------------------------------------- run_analyze
FindingsOf(fs, id) == {f \in fs : f.inspection_id = id}
RecsOf(rs, id) == {i \in DOMAIN rs : rs[i].inspection_id = id}

\* what a finding says, without its row id
Content(f) == <<f.nutrient_code, f.severity, f.confidence>>

\* the last committed analyze of a round, as an observer sees it
RunRecord(p, fs, rs) ==
    [valid |-> TRUE, imgs |-> loc[p].imgs, results |-> loc[p].results,
     findings |-> {Content(f) : f \in FindingsOf(fs, req[p].inspection_id)},
     n_findings |-> Cardinality(FindingsOf(fs, req[p].inspection_id)),
     n_recs |-> Cardinality(RecsOf(rs, req[p].inspection_id))]

\* variant: the check for an empty image list is missing
NoImages_unchecked(imgs) == FALSE

\* if not imgs
NoImages(imgs) == imgs = <<>>

\* the request arrives; round lookup, owner check, SELECT image_path, the
\* classifier call, _load_valid_codes and the aggregation loops
run_analyze(p) ==
    /\ CanBegin(p)
    /\ \E uid \in Users, id \in 1..MaxRounds :
        /\ req' = [req EXCEPT ![p] = [NoReq EXCEPT !.op = "analyze",
                                          !.uid = uid, !.inspection_id = id]]
        /\ nreq' = nreq + 1
        /\ IF id \notin RoundIds
           THEN Finish(p, ErrorResp(404, "not_found")) /\ UNCHANGED loc
           ELSE IF field[rounds[id].field_id] # uid
           THEN Finish(p, ErrorResp(403, "forbidden")) /\ UNCHANGED loc
           ELSE IF NoImages(images[id])
           THEN Finish(p, ErrorResp(400, "no_images")) /\ UNCHANGED loc
           ELSE \/ \* predict_on_paths raises: the exception leaves
                   \* run_analyze, the connection is closed uncommitted
                   /\ Finish(p, ErrorResp(500, "server_error"))
                   /\ loc' = [loc EXCEPT ![p] =
                                  [NoLoc EXCEPT !.imgs = images[id]]]
                \/ \* model.predict does not return: the request thread
                   \* stays in predict_on_paths, which sets no time limit
                   /\ Goto(p, "analyze_predict")
                   /\ loc' = [loc EXCEPT ![p] =
                                  [NoLoc EXCEPT !.imgs = images[id]]]
                \/ \E w \in Weights, vc \in ValidCodeSets :
                     LET results == predict_on_paths(images[id], w)
                         a == Aggregate(results, vc)
                     IN /\ loc' = [loc EXCEPT ![p] =
                               [NoLoc EXCEPT !.imgs = images[id],
                                   !.results = results,
                                   !.valid_codes = vc,
                                   !.agg = a.agg,
                                   !.skipped_normal = a.skipped_normal,
                                   !.unknown_labels = a.unknown_labels]]
                        /\ Goto(p, "analyze_delete")
    /\ UNCHANGED <<serving, detect, store, lastRun>>

AnalyzeResp(p, fs) ==
    [NoResp EXCEPT !.code = 200, !.findings = fs,
                   !.skipped_normal = loc[p].skipped_normal,
                   !.unknown_labels = loc[p].unknown_labels]

\* the findings list of the response and the rows of the INSERTs
FindingOf(e) ==
    [nutrient_code |-> e.code, severity |-> e.max_sev,
     confidence |-> Round2(e.max_conf)]
FindingRow(e, fid, id) ==
    [finding_id |-> fid, inspection_id |-> id, nutrient_code |-> e.code,
     severity |-> e.max_sev, confidence |-> Round2(e.max_conf)]
NewFindings(agg, first, id) ==
    {FindingRow(agg[i], first + i - 1, id) : i \in DOMAIN agg}

\* variant: with an empty agg the DELETE is not committed
run_analyze_delete_kept(p) ==
    /\ pc[p] = "analyze_delete"
    /\ LET id == req[p].inspection_id
           del == {f.finding_id : f \in FindingsOf(findings, id)}
       IN IF loc[p].agg = <<>>
          THEN /\ lastRun' = [lastRun EXCEPT ![id] =
                                  RunRecord(p, findings, recs)]
               /\ Finish(p, AnalyzeResp(p, <<>>))
               /\ UNCHANGED <<loc, findings>>
          ELSE /\ loc' = [loc EXCEPT ![p].del_ids = del]
               /\ Goto(p, "analyze_upsert")
               /\ UNCHANGED <<findings, lastRun>>
    /\ UNCHANGED <<serving, detect, rounds, images, recs, nextFinding, req, nreq>>

\* DELETE FROM zone_inspection_finding WHERE inspection_id: the rows it
\* removes are those committed when it runs.  With an empty agg the commit
\* and the response follow at once; else the INSERTs of the findings.
run_analyze_delete(p) ==
    /\ pc[p] = "analyze_delete"
    /\ LET id == req[p].inspection_id
           del == {f.finding_id : f \in FindingsOf(findings, id)}
       IN IF loc[p].agg = <<>>
          THEN /\ findings' = {f \in findings : f.finding_id \notin del}
               /\ lastRun' = [lastRun EXCEPT ![id] =
                                  RunRecord(p, findings', recs)]
               /\ Finish(p, AnalyzeResp(p, <<>>))
               /\ UNCHANGED loc
          ELSE /\ loc' = [loc EXCEPT ![p].del_ids = del]
               /\ Goto(p, "analyze_upsert")
               /\ UNCHANGED <<findings, lastRun>>
    /\ UNCHANGED <<serving, detect, rounds, images, recs, nextFinding, req, nreq>>

\* _upsert_recommendations: SELECT ... FROM fertilizer, then per code the
\* SELECT of the existing row and its UPDATE or INSERT
run_analyze_upsert(p) ==
    /\ pc[p] = "analyze_upsert"
    /\ \E ferts \in FertTables :
         loc' = [loc EXCEPT ![p].ferts = ferts,
                            ![p].rec_ops = _upsert_recommendations(
                                ferts, recs, req[p].inspection_id, loc[p].agg)]
    /\ Goto(p, "analyze_commit")
    /\ UNCHANGED <<serving, detect, store, req, nreq, lastRun>>

\* conn.commit(): the DELETE, the INSERTs and the recommendation statements
\* reach the committed tables together
run_analyze_commit(p) ==
    /\ pc[p] = "analyze_commit"
    /\ LET id == req[p].inspection_id
           agg == loc[p].agg
       IN /\ findings' = {f \in findings : f.finding_id \notin loc[p].del_ids}
                            \cup NewFindings(agg, nextFinding, id)
          /\ nextFinding' = nextFinding + Len(agg)
          /\ recs' = ApplyRecOps(recs, loc[p].rec_ops)
          /\ lastRun' = [lastRun EXCEPT ![id] = RunRecord(p, findings', recs')]
          /\ Finish(p, AnalyzeResp(p, [i \in DOMAIN agg |-> FindingOf(agg[i])]))
    /\ UNCHANGED <<serving, detect, rounds, images, req, loc, nreq>>

\* variant: the DELETE of the failed transaction stays
rollback_keeps_delete(p) ==
    /\ findings' = {f \in findings : f.finding_id \notin loc[p].del_ids}
    /\ UNCHANGED <<recs, nextFinding>>

\* what conn.rollback() leaves of the committed findings and recommendations
rollback(p) == UNCHANGED <<findings, recs, nextFinding>>

\* a statement of the transaction, or its commit, raises
\* mysql.connector.Error: conn.rollback() and the 500 response
run_analyze_error(p) ==
    /\ pc[p] \in {"analyze_delete", "analyze_upsert", "analyze_commit"}
    /\ rollback(p)
    /\ Finish(p, ErrorResp(500, "db_error"))
    /\ UNCHANGED <<serving, detect, rounds, images, req, loc, nreq, lastRun>>

\* ------------------------------------------------ backfill_recommendations
RECURSIVE CodesByFirstRow(_)
\* the codes of a set of findings, by their first row
CodesByFirstRow(fs) ==
    IF fs = {} THEN <<>>
    ELSE LET first == CHOOSE f \in fs : \A g \in fs : f.finding_id <= g.finding_id
         IN <<first.nutrient_code>> \o CodesByFirstRow(
                {g \in fs : g.nutrient_code # first.nutrient_code})

\* variant: the SELECT ends with LIMIT 1
BackfillAgg_first_only(fs) ==
    LET all == CodesByFirstRow(fs)
        codes == IF all = <<>> THEN <<>> ELSE <<Head(all)>>
    IN [i \in DOMAIN codes |->
          LET rows == {f \in fs : f.nutrient_code = codes[i]}
              top == CHOOSE f \in rows : \A g \in rows :
                        f.confidence >= g.confidence
          IN [code |-> codes[i], max_conf |-> top.confidence,
              max_sev |-> top.severity]]

\* SELECT nutrient_code, MAX(confidence), ... GROUP BY nutrient_code
BackfillAgg(fs) ==
    LET codes == CodesByFirstRow(fs)
    IN [i \in DOMAIN codes |->
          LET rows == {f \in fs : f.nutrient_code = codes[i]}
              top == CHOOSE f \in rows : \A g \in rows :
                        f.confidence >= g.confidence
          IN [code |-> codes[i], max_conf |-> top.confidence,
              max_sev |-> top.severity]]

\* the request arrives; owner check, the aggregate of the stored findings
\* and the statements of _upsert_recommendations
backfill_recommendations(p) ==
    /\ CanBegin(p)
    /\ \E uid \in Users, id \in 1..MaxRounds :
        /\ req' = [req EXCEPT ![p] = [NoReq EXCEPT !.op = "backfill",
                                          !.uid = uid, !.inspection_id = id]]
        /\ nreq' = nreq + 1
        /\ IF id \notin RoundIds
           THEN Finish(p, ErrorResp(404, "not_found")) /\ UNCHANGED loc
           ELSE IF field[rounds[id].field_id] # uid
           THEN Finish(p, ErrorResp(403, "forbidden")) /\ UNCHANGED loc
           ELSE \E ferts \in FertTables :
                  LET agg == BackfillAgg(FindingsOf(findings, id))
                  IN /\ loc' = [loc EXCEPT ![p] =
                            [NoLoc EXCEPT !.agg = agg, !.ferts = ferts,
                                !.rec_ops = _upsert_recommendations(
                                                ferts, recs, id, agg)]]
                     /\ Goto(p, "backfill_commit")
    /\ UNCHANGED <<serving, detect, store, lastRun>>

\* conn.commit() and the response
backfill_recommendations_commit(p) ==
    /\ pc[p] = "backfill_commit"
    /\ recs' = ApplyRecOps(recs, loc[p].rec_ops)
    /\ Finish(p, [NoResp EXCEPT !.code = 200,
                      !.updated_codes = [i \in DOMAIN loc[p].agg |->
                                            loc[p].agg[i].code]])
    /\ UNCHANGED <<serving, detect, rounds, images, findings, nextFinding, req, loc,
                   nreq, lastRun>>

\* mysql.connector.Error in backfill: conn.rollback() and the 500 response
backfill_recommendations_error(p) ==
    /\ pc[p] = "backfill_commit"
    /\ Finish(p, ErrorResp(500, "db_error"))
    /\ UNCHANGED <<serving, detect, store, req, loc, nreq, lastRun>>

\* ---------------------------------------------------- patch_recommendation
\* (status, applied_date) of the patch requests tried; "" is no date
PatchArgs ==
    {<<"applied", "2025-09-01">>, <<"applied", "">>,
     <<"Skipped ", "2025-01-01">>, <<"suggested", "">>, <<"done", "">>,
     <<"applied", "2025-13-01">>}

StripStatus(s) == IF s = "Skipped " THEN "Skipped" ELSE Strip(s)
LowerStatus(s) == IF s = "Skipped" THEN "skipped" ELSE Lower(s)

\* variant: every string parses
_parse_yyyy_mm_dd_any(s) == TRUE

\* datetime.strptime(s, '%Y-%m-%d') succeeds
_parse_yyyy_mm_dd(s) == s \in {"2025-09-01", "2025-01-01"}

\* date.today().strftime('%Y-%m-%d')
Today == "today"

\* the checks of the body: the error they end the request with, "" if none
PatchCheck(status, given) ==
    IF status \notin {"suggested", "applied", "skipped"} THEN "bad_status"
    ELSE IF status = "applied" /\ given # "" /\ ~_parse_yyyy_mm_dd(given)
    THEN "bad_date_format"
    ELSE ""

\* variant: a supplied date is stored whatever the status
PatchDate_keeps_given(status, given) ==
    IF given # "" THEN given
    ELSE IF status = "applied" THEN Today ELSE NULL

\* the applied_date the UPDATE writes
PatchDate(status, given) ==
    IF status = "applied"
    THEN IF given # "" THEN given ELSE Today
    ELSE NULL

\* variant: the UPDATE selects the rows by the round of the recommendation
SetStatus_of_round(rs, rec_id, status, applied_date) ==
    [i \in DOMAIN rs |->
        IF rs[i].inspection_id = rs[rec_id].inspection_id
        THEN [rs[i] EXCEPT !.status = status, !.applied_date = applied_date]
        ELSE rs[i]]

\* UPDATE zone_inspection_recommendation SET status, applied_date
\* WHERE recommendation_id
SetStatus(rs, rec_id, status, applied_date) ==
    [rs EXCEPT ![rec_id].status = status,
               ![rec_id].applied_date = applied_date]

\* the whole request: the checks of the body, the owner check, the UPDATE
\* of status and applied_date, conn.commit()
patch_recommendation(p) ==
    /\ CanBegin(p)
    /\ \E uid \in Users, rec_id \in 1..(Len(recs) + 1), a \in PatchArgs :
        LET status == LowerStatus(StripStatus(a[1]))
            applied_date == PatchDate(status, a[2])
        IN /\ req' = [req EXCEPT ![p] = [NoReq EXCEPT !.op = "patch",
                          !.uid = uid, !.rec_id = rec_id, !.status = a[1],
                          !.applied_date = a[2]]]
           /\ nreq' = nreq + 1
           /\ IF PatchCheck(status, a[2]) # ""
              THEN Finish(p, ErrorResp(400, PatchCheck(status, a[2])))
                   /\ UNCHANGED recs
              ELSE IF rec_id \notin DOMAIN recs
              THEN Finish(p, ErrorResp(404, "not_found")) /\ UNCHANGED recs
              ELSE IF field[rounds[recs[rec_id].inspection_id].field_id] # uid
              THEN Finish(p, ErrorResp(403, "forbidden")) /\ UNCHANGED recs
              ELSE \/ /\ recs' = SetStatus(recs, rec_id, status, applied_date)
                      /\ Finish(p, [NoResp EXCEPT !.code = 200])
                   \/ \* mysql.connector.Error: conn.rollback()
                      /\ Finish(p, ErrorResp(500, "db_error"))
                      /\ UNCHANGED recs
    /\ UNCHANGED <<serving, detect, rounds, images, findings, nextFinding, loc,
                   lastRun>>

\* ------------------------------------------------------------------ return
\* the response is sent; finally: cur.close(); conn.close()
Return(p) ==
    /\ pc[p] = "done"
    /\ pc' = [pc EXCEPT ![p] = "idle"]
    /\ req' = [req EXCEPT ![p] = NoReq]
    /\ loc' = [loc EXCEPT ![p] = NoLoc]
    /\ resp' = [resp EXCEPT ![p] = NoResp]
    /\ UNCHANGED <<serving, detect, store, nreq, lastRun>>

\* ------------------------------------------------------------ specification
\* detect.py as imported: no model loaded
InitDetect ==
    /\ _MODEL = NoModel
    /\ _MODEL_NAMES = None
    /\ _DEVICE = None
    /\ loads = 0

InitStore ==
    /\ rounds = <<>>
    /\ images = [i \in 1..MaxRounds |-> <<>>]
    /\ findings = {}
    /\ recs = <<>>
    /\ nextFinding = 1
    /\ pc = [p \in Procs |-> "idle"]
    /\ req = [p \in Procs |-> NoReq]
    /\ loc = [p \in Procs |-> NoLoc]
    /\ resp = [p \in Procs |-> NoResp]
    /\ nreq = 0
    /\ lastRun = [i \in 1..MaxRounds |-> NoRun]
    /\ InitDetect

Init == serving = "threaded" /\ InitStore
InitSeq == serving = "serial" /\ InitStore

Step(p) ==
    \/ start_round(p)
    \/ start_round_close(p)
    \/ start_round_max(p)
    \/ start_round_insert(p)
    \/ start_round_error(p)
    \/ upload_images(p)
    \/ upload_images_save(p)
    \/ upload_images_error(p)
    \/ run_analyze(p)
    \/ run_analyze_delete(p)
    \/ run_analyze_upsert(p)
    \/ run_analyze_commit(p)
    \/ run_analyze_error(p)
    \/ backfill_recommendations(p)
    \/ backfill_recommendations_commit(p)
    \/ backfill_recommendations_error(p)
    \/ patch_recommendation(p)
    \/ Return(p)

Next == \E p \in Procs : Step(p)

\* threaded serving: the steps of the requests interleave
Spec == Init /\ [][Next]_vars

\* the state after the owner has started round 1 of (field 1, zone 1),
\* uploaded k.JPG and analysed it, the classifier finding potassium: the
\* round has one finding and one recommendation, and no request is running
InitRec ==
    /\ serving = "analysed"
    /\ rounds = <<NewRound(1, 1, 1)>>
    /\ images = [i \in 1..MaxRounds |-> IF i = 1 THEN <<"k.JPG">> ELSE <<>>]
    /\ \E ferts \in FertTables :
         LET results == predict_on_paths(<<"k.JPG">>, 1)
             agg == Aggregate(results, NutrientCodes).agg
         IN /\ findings = NewFindings(agg, 1, 1)
            /\ nextFinding = 1 + Len(agg)
            /\ recs = ApplyRecOps(<<>>,
                          _upsert_recommendations(ferts, <<>>, 1, agg))
            /\ lastRun = [i \in 1..MaxRounds |->
                  IF i = 1
                  THEN [valid |-> TRUE, imgs |-> <<"k.JPG">>,
                        results |-> results,
                        findings |-> {Content(f) : f \in findings},
                        n_findings |-> Len(agg), n_recs |-> Len(agg)]
                  ELSE NoRun]
    /\ pc = [p \in Procs |-> "idle"]
    /\ req = [p \in Procs |-> NoReq]
    /\ loc = [p \in Procs |-> NoLoc]
    /\ resp = [p \in Procs |-> NoResp]
    /\ nreq = 0
    /\ InitDetect

\* threaded serving of the requests that follow a first analysis
RecSpec == InitRec /\ [][Next]_vars
\* serial serving: a request begins when the one before it has returned
SeqSpec == InitSeq /\ [][Next]_vars

\* ------------------------------------- the aggregation loops on their own
\* the predictions (class, confidence) a classifier may return
PredPool ==
    {Pred("Potassium", 92000), Pred("Potassium", 84999), Pred("K", 85000),
     Pred("potassium", 64999), Pred(" Mg ", 65000), Pred("Nitrogen", 70000),
     Pred("nomal", 60000), Pred("Healthy", 90000), Pred("Boron", 99000),
     Pred("", 30000), Pred("None", 85000), Pred("POTASSIUM", 0)}

\* what _load_valid_codes may return: the codes of nutrient_deficiency as
\* the repository's data has them, none (the read failed), or a table
\* that also holds other names
Whitelists == {NutrientCodes, {}, {"K", "Boron", "Healthy", "none"}}

PredSeqs(n) == UNION {[1..k -> PredPool] : k \in 0..n}

\* results of predict_on_paths for two images: the first image has the
\* first prediction, the second the others
ResultsOf(ps) ==
    <<[image |-> "k.JPG", preds |-> SubSeq(ps, 1, Min(1, Len(ps)))],
      [image |-> "n.png", preds |-> SubSeq(ps, 2, Len(ps))]>>

\* the state before the loops: results, valid_codes, an empty agg; nreq
\* counts the predictions the loops have taken
InitAgg ==
    /\ serving = "aggregate"
    /\ rounds = <<>>
    /\ images = [i \in 1..MaxRounds |-> <<>>]
    /\ findings = {}
    /\ recs = <<>>
    /\ nextFinding = 1
    /\ pc = [p \in Procs |-> IF p = 1 THEN "aggregate" ELSE "idle"]
    /\ req = [p \in Procs |-> NoReq]
    /\ \E ps \in PredSeqs(MaxPreds), vc \in Whitelists :
         loc = [p \in Procs |->
                   IF p = 1 THEN [NoLoc EXCEPT !.results = ResultsOf(ps),
                                               !.valid_codes = vc]
                   ELSE NoLoc]
    /\ resp = [p \in Procs |-> NoResp]
    /\ nreq = 0
    /\ lastRun = [i \in 1..MaxRounds |-> NoRun]
    /\ InitDetect

\* one pass of the inner loop: the next prediction is resolved and counted
aggregate_step(p) ==
    /\ pc[p] = "aggregate"
    /\ LET ps == Flatten(loc[p].results)
       IN /\ nreq < Len(ps)
          /\ LET st == AggStep([agg |-> loc[p].agg,
                                skipped_normal |-> loc[p].skipped_normal,
                                unknown_labels |-> loc[p].unknown_labels],
                               ps[nreq + 1], loc[p].valid_codes)
             IN loc' = [loc EXCEPT ![p].agg = st.agg,
                                   ![p].skipped_normal = st.skipped_normal,
                                   ![p].unknown_labels = st.unknown_labels]
    /\ nreq' = nreq + 1
    /\ UNCHANGED <<serving, detect, store, pc, req, resp, lastRun>>

NextAgg == \E p \in Procs : aggregate_step(p)

\* the loops of run_analyze over every bounded list of predictions
AggSpec == InitAgg /\ [][NextAgg]_vars

\* ------------------------------------------- the model loader of detect.py
\* the devices _pick_device may choose
Devices == {"cpu", "0"}

\* getattr(m, 'names', None) of a model built from the model file
ModelNames(m) == "names"

\* GET /api/detect/labels or POST /api/detect arrives; both call _load_model
detect_request(p) ==
    /\ pc[p] = "idle"
    /\ nreq < MaxCalls
    /\ \E op \in {"labels", "detect"} :
         req' = [req EXCEPT ![p] = [NoReq EXCEPT !.op = op]]
    /\ nreq' = nreq + 1
    /\ loc' = [loc EXCEPT ![p] = NoLoc]
    /\ Goto(p, "load_check")
    /\ UNCHANGED <<serving, detect, store, lastRun>>

\* if _MODEL is not None: return _MODEL
_load_model(p) ==
    /\ pc[p] = "load_check"
    /\ IF _MODEL # NoModel
       THEN /\ loc' = [loc EXCEPT ![p].model = _MODEL]
            /\ Goto(p, "loaded")
       ELSE /\ UNCHANGED loc
            /\ Goto(p, "load_path")
    /\ UNCHANGED <<serving, detect, store, req, nreq, lastRun>>

\* _pick_model_path: with no model file FileNotFoundError, answered
\* model_not_found; else _DEVICE = _pick_device()
_load_model_path(p) ==
    /\ pc[p] = "load_path"
    /\ \/ /\ Finish(p, ErrorResp(500, "model_not_found"))
          /\ UNCHANGED _DEVICE
       \/ /\ \E d \in Devices : _DEVICE' = d
          /\ Goto(p, "load_yolo")
    /\ UNCHANGED <<serving, _MODEL, _MODEL_NAMES, loads, store, req, loc, nreq,
                   lastRun>>

\* m = YOLO(model_path): a new model object
_load_model_yolo(p) ==
    /\ pc[p] = "load_yolo"
    /\ loads' = loads + 1
    /\ loc' = [loc EXCEPT ![p].m = loads + 1]
    /\ Goto(p, "load_set")
    /\ UNCHANGED <<serving, _MODEL, _MODEL_NAMES, _DEVICE, store, req, nreq,
                   lastRun>>

\* _MODEL = m
_load_model_set(p) ==
    /\ pc[p] = "load_set"
    /\ _MODEL' = loc[p].m
    /\ Goto(p, "load_names")
    /\ UNCHANGED <<serving, _MODEL_NAMES, _DEVICE, loads, store, req, loc, nreq,
                   lastRun>>

\* _MODEL_NAMES = getattr(m, 'names', None); return _MODEL
_load_model_names(p) ==
    /\ pc[p] = "load_names"
    /\ _MODEL_NAMES' = ModelNames(loc[p].m)
    /\ loc' = [loc EXCEPT ![p].model = _MODEL]
    /\ Goto(p, "loaded")
    /\ UNCHANGED <<serving, _MODEL, _DEVICE, loads, store, req, nreq, lastRun>>

\* labels(): the response carries _MODEL_NAMES
detect_labels(p) ==
    /\ pc[p] = "loaded"
    /\ req[p].op = "labels"
    /\ Finish(p, [NoResp EXCEPT !.code = 200, !.labels = _MODEL_NAMES])
    /\ UNCHANGED <<serving, detect, store, req, loc, nreq, lastRun>>

\* predict_on_paths: model.predict(..., device=_DEVICE)
detect_predict(p) ==
    /\ pc[p] = "loaded"
    /\ req[p].op = "detect"
    /\ loc' = [loc EXCEPT ![p].device = _DEVICE]
    /\ Goto(p, "predict_names")
    /\ UNCHANGED <<serving, detect, store, req, nreq, lastRun>>

\* the loop over the results: _class_name_from_id gives the name of the
\* class when _MODEL_NAMES is a dict, else str(idx)
detect_classes(p) ==
    /\ pc[p] = "predict_names"
    /\ Finish(p, [NoResp EXCEPT !.code = 200,
                      !.classes = IF _MODEL_NAMES = None THEN "index"
                                  ELSE "name"])
    /\ UNCHANGED <<serving, detect, store, req, loc, nreq, lastRun>>

InitLoad == serving = "detect" /\ InitStore

NextLoad ==
    \E p \in Procs :
        \/ detect_request(p)
        \/ _load_model(p)
        \/ _load_model_path(p)
        \/ _load_model_yolo(p)
        \/ _load_model_set(p)
        \/ _load_model_names(p)
        \/ detect_labels(p)
        \/ detect_predict(p)
        \/ detect_classes(p)
        \/ Return(p)

\* the requests of the detect blueprint, their steps interleaving
LoadSpec == InitLoad /\ [][NextLoad]_vars
\* ================================================================== claims
\* the open rounds of a (field, zone), read off the committed table
OpenIds(f, z) ==
    {i \in DOMAIN rounds : /\ rounds[i].field_id = f
                           /\ rounds[i].zone_id = z
                           /\ rounds[i].status = "pending"}

\* worker p has just answered a request of kind op with HTTP 200
Answered(p, op) == pc[p] = "done" /\ req[p].op = op /\ resp[p].code = 200

\* C1: in every reachable state every (field, zone) has at most one round
\* with the open status, whatever the interleaving of the start calls.
C1_AtMostOneOpenRound ==
    \A i, j \in DOMAIN rounds :
        (/\ rounds[i].field_id = rounds[j].field_id
         /\ rounds[i].zone_id = rounds[j].zone_id
         /\ rounds[i].status = "pending"
         /\ rounds[j].status = "pending") => i = j

\* C2: in every reachable state a round has at most MAX_IMAGES_PER_ROUND (5)
\* image rows, also when two uploads both saw remaining quota.
C2_QuotaNeverExceeded ==
    \A id \in DOMAIN images : Len(images[id]) <= 5

\* C3: an analyze that detects code c again leaves the status and the
\* applied_date of the round's row for c, which the operator had set to
\* applied or skipped, as they were, and sets its fertilizer reference,
\* text, rate and method to what the rule table read by that analyze yields.
C3_OperatorStatusKept ==
    [][\A p \in Procs :
        (/\ req[p].op = "analyze"
         /\ pc[p] = "analyze_commit"
         /\ pc'[p] = "done"
         /\ resp'[p].code = 200)
        => \A i \in DOMAIN recs, k \in DOMAIN loc[p].agg :
             (/\ recs[i].inspection_id = req[p].inspection_id
              /\ recs[i].nutrient_code = loc[p].agg[k].code
              /\ recs[i].status \in {"applied", "skipped"})
             => /\ recs'[i].status = recs[i].status
                /\ recs'[i].applied_date = recs[i].applied_date
                /\ recs'[i].fertilizer_id =
                       _match_fertilizer_id(loc[p].ferts, recs[i].nutrient_code)
                /\ recs'[i].recommendation_text =
                       rec_text(loc[p].ferts, recs[i].nutrient_code)
                /\ recs'[i].rate_per_area = RATE(recs[i].nutrient_code)
                /\ recs'[i].application_method = METHOD(recs[i].nutrient_code)
      ]_vars

\* an analyze has committed an UPDATE of a row the operator had marked
\* applied on 2025-09-01, and the row now carries the text of the other
\* fertilizer table
C3_Witness ==
    \E p \in Procs :
        /\ Answered(p, "analyze")
        /\ \E k \in DOMAIN loc[p].rec_ops :
            LET i == loc[p].rec_ops[k].recommendation_id
            IN /\ i # 0
               /\ recs[i].status = "applied"
               /\ recs[i].applied_date = "2025-09-01"
               /\ recs[i].nutrient_code = "K"
               /\ recs[i].recommendation_text = "MOP: apply around the trunk"

\* C4: in every reachable state there is at most one recommendation row per
\* (round, nutrient code), whatever the interleaving of analyze and backfill.
C4_OneRecPerRoundAndCode ==
    \A i, j \in DOMAIN recs :
        (/\ recs[i].inspection_id = recs[j].inspection_id
         /\ recs[i].nutrient_code = recs[j].nutrient_code) => i = j

\* C5: an analyze of which a store step fails changes no committed finding
\* and no committed recommendation: no step of an analyze other than the
\* commit that ends it with success writes to the two tables.
C5_FailedAnalyzeWritesNothing ==
    [][\A p \in Procs :
        (/\ req[p].op = "analyze"
         /\ pc[p] \in {"analyze_delete", "analyze_upsert", "analyze_commit"}
         /\ pc'[p] # pc[p]
         /\ ~(pc'[p] = "done" /\ resp'[p].code = 200))
        => findings' = findings /\ recs' = recs
      ]_vars

\* an analyze failed at its commit after its DELETE had matched stored
\* findings and its upsert had prepared statements; the findings are there
C5_Witness ==
    \E p \in Procs :
        /\ pc[p] = "done"
        /\ req[p].op = "analyze"
        /\ resp[p].code = 500
        /\ loc[p].del_ids # {}
        /\ loc[p].rec_ops # <<>>
        /\ \A d \in loc[p].del_ids : \E f \in findings : f.finding_id = d

\* C6: with an open round for (field, zone), a start with new_round false by
\* the owner answers with that round's id and round_no and idempotent true and
\* changes no round; after any such start, served one at a time, the answer
\* names the one open round of the (field, zone).
C6_StartIdempotent ==
    [][\A p \in Procs :
        (/\ pc[p] = "idle"
         /\ pc'[p] # "idle"
         /\ req'[p].op = "start"
         /\ ~req'[p].new_round
         /\ req'[p].field_id \in DOMAIN field
         /\ field[req'[p].field_id] = req'[p].uid
         /\ OpenIds(req'[p].field_id, req'[p].zone_id) # {})
        => /\ pc'[p] = "done"
           /\ resp'[p].code = 200
           /\ resp'[p].idempotent
           /\ OpenIds(req'[p].field_id, req'[p].zone_id)
                  = {resp'[p].inspection_id}
           /\ resp'[p].round_no = rounds[resp'[p].inspection_id].round_no
           /\ rounds' = rounds
      ]_vars

\* the second of two starts on a (field, zone) has answered idempotent, with
\* the id and round_no of the only round
C6_Witness ==
    \E p \in Procs :
        /\ Answered(p, "start")
        /\ resp[p].idempotent
        /\ resp[p].inspection_id = 1
        /\ resp[p].round_no = 1
        /\ Len(rounds) = 1
        /\ nreq = 2

\* C7: a successful start with new_round true on a (field, zone) with the
\* open round R1 creates the open round R2 with round_no(R2) =
\* round_no(R1) + 1, leaves R1 closed and answers idempotent false.
C7_ForcedStart ==
    \A p \in Procs :
        (/\ Answered(p, "start")
         /\ req[p].new_round
         /\ loc[p].exist # 0)
        => LET r1 == loc[p].exist
               r2 == resp[p].inspection_id
           IN /\ ~resp[p].idempotent
              /\ r2 # r1
              /\ r2 \in DOMAIN rounds
              /\ rounds[r2].status = "pending"
              /\ rounds[r2].field_id = req[p].field_id
              /\ rounds[r2].zone_id = req[p].zone_id
              /\ rounds[r2].round_no = rounds[r1].round_no + 1
              /\ resp[p].round_no = rounds[r2].round_no
              /\ rounds[r1].status = "completed"
              /\ OpenIds(req[p].field_id, req[p].zone_id) = {r2}

\* a forced start has answered after closing round 1 and creating round 2
C7_Witness ==
    \E p \in Procs :
        /\ Answered(p, "start")
        /\ req[p].new_round
        /\ loc[p].exist = 1
        /\ resp[p].inspection_id = 2
        /\ rounds[1].status = "completed"

\* C8: the close and the create of a forced start are one atomic unit: as
\* long as the forced start has not created its new round, the committed
\* table shows the previous round open.
C8_ForcedStartAtomic ==
    \A p \in Procs :
        (/\ req[p].op = "start"
         /\ req[p].new_round
         /\ pc[p] \in {"start_max", "start_insert"}
         /\ loc[p].exist # 0)
        => rounds[loc[p].exist].status = "pending"

\* C9: an analyze that follows a committed analyze of the same round, with
\* the same images and the same classifier output, leaves the same finding
\* set and the same number of recommendation rows as the first.
C9_ReanalyzeIdempotent ==
    [][\A p \in Procs :
        LET id == req[p].inspection_id
        IN (/\ req[p].op = "analyze"
            /\ pc[p] \in {"analyze_delete", "analyze_commit"}
            /\ pc'[p] = "done"
            /\ resp'[p].code = 200
            /\ lastRun[id].valid
            /\ lastRun[id].imgs = loc[p].imgs
            /\ lastRun[id].results = loc[p].results)
           => /\ lastRun'[id].findings = lastRun[id].findings
              /\ lastRun'[id].n_findings = lastRun[id].n_findings
              /\ lastRun'[id].n_recs = lastRun[id].n_recs
      ]_vars

\* the predictions of a run that resolve to code c under the whitelist of
\* the nutrient table
ResolvingTo(results, c) ==
    LET ps == Flatten(results)
    IN {k \in DOMAIN ps :
          LET raw == Strip(ps[k].class)
              l == IF raw \in DOMAIN CLASS_ALIASES
                   THEN CLASS_ALIASES[raw] ELSE raw
          IN _to_nutrient_code(l, NutrientCodes) = c}

MaxPct(results, c) ==
    Max({Flatten(results)[k].confidence * 100 : k \in ResolvingTo(results, c)})

Tier(x) ==
    IF x >= 8500000 THEN "severe" ELSE IF x >= 6500000 THEN "moderate"
    ELSE "mild"

\* C10: after a successful analyze the round has exactly one finding for each
\* nutrient code that a prediction resolves to and none for another code; the
\* finding's confidence is the maximum of confidence*100 over the predictions
\* resolving to the code and its severity the tier of that maximum.
C10_OneFindingPerCode ==
    \A p \in Procs :
        Answered(p, "analyze")
        => LET id == req[p].inspection_id
               rows == {f \in findings : f.inspection_id = id}
               codes == {c \in NutrientCodes :
                           ResolvingTo(loc[p].results, c) # {}}
           IN /\ {f.nutrient_code : f \in rows} = codes
              /\ Cardinality(rows) = Cardinality(codes)
              /\ \A f \in rows :
                    /\ f.confidence = MaxPct(loc[p].results, f.nutrient_code)
                    /\ f.severity = Tier(f.confidence)
\* the owner of a field, as the field table of the model has it
OwnerOf(f) == IF f = 1 THEN 1 ELSE 2

\* the files of a batch that an upload to a round holding a images accepts
Accepted(files, a) ==
    SubSeq(files, 1, IF Len(files) <= 5 - a THEN Len(files) ELSE 5 - a)

\* C11: a successful upload of n files to an open round holding a < 5 images
\* records exactly the first min(n, 5 - a) files of the batch, in submission
\* order, and reports skipped = n - min(n, 5 - a) and quota_remain =
\* 5 - a - min(n, 5 - a).
C11_UploadTakesFirstFiles ==
    [][\A p \in Procs :
        (/\ req[p].op = "upload"
         /\ pc[p] = "upload_save"
         /\ pc'[p] = "done"
         /\ resp'[p].code = 200)
        => LET id == req[p].inspection_id
               a == Len(images[id])
               n == Len(req[p].files)
               m == Len(Accepted(req[p].files, a))
           IN /\ a < 5
              /\ images'[id] = images[id] \o Accepted(req[p].files, a)
              /\ resp'[p].saved = Accepted(req[p].files, a)
              /\ resp'[p].skipped = n - m
              /\ resp'[p].quota_remain = 5 - a - m
      ]_vars

\* four files were uploaded to a round that held three: two are recorded,
\* the round holds five, skipped is 2
C11_Witness ==
    \E p \in Procs :
        /\ Answered(p, "upload")
        /\ Len(req[p].files) = 4
        /\ resp[p].skipped = 2
        /\ resp[p].quota_remain = 0
        /\ images[req[p].inspection_id]
               = <<"k.JPG", "n.png", "h.webp", "n.png", "k.JPG">>

\* C12: an upload by the owner to an open round that holds 5 images fails
\* with quota_full, reports the count and the maximum, saves no file and
\* changes no table.
C12_QuotaFull ==
    [][\A p \in Procs :
        (/\ pc[p] = "idle"
         /\ pc'[p] # "idle"
         /\ req'[p].op = "upload"
         /\ req'[p].files # <<>>
         /\ req'[p].inspection_id \in DOMAIN rounds
         /\ rounds[req'[p].inspection_id].status = "pending"
         /\ OwnerOf(rounds[req'[p].inspection_id].field_id) = req'[p].uid
         /\ Len(images[req'[p].inspection_id]) = 5)
        => /\ pc'[p] = "done"
           /\ resp'[p].code = 400
           /\ resp'[p].error = "quota_full"
           /\ resp'[p].exist = 5
           /\ resp'[p].max = 5
           /\ loc'[p].saved = <<>>
           /\ UNCHANGED store
      ]_vars

\* an upload was refused with quota_full on a round of five images
C12_Witness ==
    \E p \in Procs :
        /\ pc[p] = "done"
        /\ req[p].op = "upload"
        /\ resp[p].error = "quota_full"
        /\ resp[p].exist = 5
        /\ Len(images[req[p].inspection_id]) = 5

\* C13: an upload is all or nothing for the image rows: when it ends, either
\* it succeeded and every accepted file of the batch has a committed row, or
\* it failed (a check of the request, a check of a later file, a failing
\* statement) and no file of the batch has one.
C13_UploadAllOrNothing ==
    [][\A p \in Procs :
        (/\ pc'[p] = "done"
         /\ pc[p] # "done"
         /\ req'[p].op = "upload")
        => IF resp'[p].code = 200
           THEN LET id == req[p].inspection_id
                IN images' = [images EXCEPT ![id] =
                                  @ \o Accepted(req[p].files, Len(@))]
           ELSE images' = images
      ]_vars

\* an upload failed at a statement after a file of the batch had been
\* inserted; the round has no image row
C13_Witness ==
    \E p \in Procs :
        /\ pc[p] = "done"
        /\ req[p].op = "upload"
        /\ resp[p].code = 500
        /\ Len(loc[p].saved) >= 2
        /\ images[req[p].inspection_id] = <<>>
\* C14: in upload and in patch every validation error (unsupported_media,
\* payload_too_large, quota_full, bad_status, bad_date_format) is answered
\* before the request has saved a file or issued an INSERT or UPDATE.
C14_ValidationBeforeMutation ==
    \A p \in Procs :
        (/\ pc[p] = "done"
         /\ req[p].op \in {"upload", "patch"}
         /\ resp[p].error \in {"unsupported_media", "payload_too_large",
                               "quota_full", "bad_status", "bad_date_format"})
        => loc[p].saved = <<>>
\* worker p takes a request in this step
Begins(p) == pc[p] = "idle" /\ pc'[p] # "idle"

\* C15: analyze by the owner on a round with no image row fails with
\* no_images without calling the classifier, leaves the round with no finding
\* and changes no table.
C15_NoImages ==
    [][\A p \in Procs :
        (/\ Begins(p)
         /\ req'[p].op = "analyze"
         /\ req'[p].inspection_id \in DOMAIN rounds
         /\ OwnerOf(rounds[req'[p].inspection_id].field_id) = req'[p].uid
         /\ images[req'[p].inspection_id] = <<>>)
        => /\ pc'[p] = "done"
           /\ resp'[p].code = 400
           /\ resp'[p].error = "no_images"
           /\ loc'[p].results = <<>>
           /\ UNCHANGED store
           /\ \A f \in findings' : f.inspection_id # req'[p].inspection_id
      ]_vars

\* the owner's analyze of a round without images was answered no_images
C15_Witness ==
    \E p \in Procs :
        /\ pc[p] = "done"
        /\ req[p].op = "analyze"
        /\ req[p].uid = 1
        /\ resp[p].error = "no_images"
        /\ images[req[p].inspection_id] = <<>>

\* C16: when the classifier call of an analyze raises, the request is
\* answered with a failure and the committed findings and recommendations
\* are those before the call.
C16_ClassifierFailure ==
    [][\A p \in Procs :
        (/\ Begins(p)
         /\ req'[p].op = "analyze"
         /\ pc'[p] = "done"
         /\ loc'[p].imgs # <<>>)
        => /\ resp'[p].code = 500
           /\ resp'[p].findings = <<>>
           /\ findings' = findings
           /\ recs' = recs
      ]_vars

\* the classifier raised in an analyze of a round that has a finding and a
\* recommendation from an earlier run
C16_Witness ==
    \E p \in Procs :
        /\ pc[p] = "done"
        /\ req[p].op = "analyze"
        /\ resp[p].error = "server_error"
        /\ \E f \in findings : f.inspection_id = req[p].inspection_id
        /\ \E i \in DOMAIN recs : recs[i].inspection_id = req[p].inspection_id

\* the status a request body names, stripped and in lower case
StatusNamed(raw) == IF raw = "Skipped " THEN "skipped" ELSE raw

\* C17: a successful patch stores the given status; applied_date is the
\* current date for applied without a date, the given date for applied with
\* a valid date, and null for suggested and skipped whatever date was given.
C17_SetStatus ==
    [][\A p \in Procs :
        (/\ Begins(p)
         /\ req'[p].op = "patch"
         /\ resp'[p].code = 200)
        => LET r == req'[p].rec_id
               st == StatusNamed(req'[p].status)
               d == req'[p].applied_date
           IN /\ r \in DOMAIN recs
              /\ recs' = [recs EXCEPT
                    ![r].status = st,
                    ![r].applied_date =
                        IF st = "applied"
                        THEN IF d = "" THEN "today" ELSE d
                        ELSE "NULL"]
              /\ st \in {"suggested", "applied", "skipped"}
      ]_vars

\* skipped was set with the date 2025-01-01: the row has no applied_date
C17_Witness ==
    \E p \in Procs :
        /\ Answered(p, "patch")
        /\ req[p].status = "Skipped "
        /\ req[p].applied_date = "2025-01-01"
        /\ recs[req[p].rec_id].status = "skipped"
        /\ recs[req[p].rec_id].applied_date = "NULL"

\* C18: a patch with a status outside suggested, applied, skipped fails with
\* bad_status, a patch with status applied and a date that is not a valid
\* YYYY-MM-DD date fails with bad_date_format, both without changing a row;
\* the status of every recommendation row is suggested, applied or skipped.
C18_BadStatusBadDate ==
    [][/\ \A p \in Procs :
            (Begins(p) /\ req'[p].op = "patch")
            => LET st == StatusNamed(req'[p].status)
                   d == req'[p].applied_date
               IN /\ st \notin {"suggested", "applied", "skipped"}
                     => /\ resp'[p].code = 400
                        /\ resp'[p].error = "bad_status"
                        /\ recs' = recs
                  /\ (st = "applied" /\ d \notin {"", "2025-09-01", "2025-01-01"})
                     => /\ resp'[p].code = 400
                        /\ resp'[p].error = "bad_date_format"
                        /\ recs' = recs
       /\ \A i \in DOMAIN recs' :
            recs'[i].status \in {"suggested", "applied", "skipped"}
      ]_vars

\* applied with the date 2025-13-01 was refused on an existing row
C18_Witness ==
    \E p \in Procs :
        /\ pc[p] = "done"
        /\ req[p].op = "patch"
        /\ req[p].applied_date = "2025-13-01"
        /\ resp[p].error = "bad_date_format"
        /\ req[p].rec_id \in DOMAIN recs
        /\ recs[req[p].rec_id].status = "suggested"
\* the request of worker p targets a field, or a round or a recommendation
\* of a field, that the caller does not own
NonOwnerCall(p) ==
    LET r == req[p]
    IN CASE r.op = "start" ->
              r.field_id \in {1, 2} /\ OwnerOf(r.field_id) # r.uid
         [] r.op \in {"upload", "analyze", "backfill"} ->
              /\ r.inspection_id \in DOMAIN rounds
              /\ OwnerOf(rounds[r.inspection_id].field_id) # r.uid
         [] r.op = "patch" ->
              /\ r.rec_id \in DOMAIN recs
              /\ OwnerOf(rounds[recs[r.rec_id].inspection_id].field_id)
                     # r.uid
         [] OTHER -> FALSE

\* the check of the request body that a handler makes before its owner
\* check and that the request of worker p fails, "" if none
BodyError(p) ==
    LET r == req[p]
    IN IF r.op = "start" /\ r.zone_id = 0 THEN "missing_params"
       ELSE IF r.op = "upload" /\ r.files = <<>> THEN "no_files"
       ELSE IF r.op = "patch" /\ StatusNamed(r.status)
                   \notin {"suggested", "applied", "skipped"}
       THEN "bad_status"
       ELSE IF r.op = "patch" /\ StatusNamed(r.status) = "applied"
                   /\ r.applied_date \notin {"", "2025-09-01", "2025-01-01"}
       THEN "bad_date_format"
       ELSE ""

\* C19 as stated: a call of start, upload, analyze, backfill or patch by a
\* user who does not own the target changes no round, image, finding or
\* recommendation and fails with forbidden.
C19_NonOwnerForbidden ==
    [][\A p \in Procs :
        (Begins(p) /\ NonOwnerCall(p)')
        => /\ pc'[p] = "done"
           /\ resp'[p].code = 403
           /\ resp'[p].error = "forbidden"
           /\ UNCHANGED store
      ]_vars

\* C19, amended: a call of start, upload, analyze, backfill or patch by a
\* user who does not own the target changes no round, image, finding or
\* recommendation and fails: with the error of the check of the request
\* body that precedes the owner check (missing_params, no_files, bad_status,
\* bad_date_format) if the body fails it, else with forbidden.
C19_NonOwnerRefused ==
    [][\A p \in Procs :
        (Begins(p) /\ NonOwnerCall(p)')
        => /\ pc'[p] = "done"
           /\ IF BodyError(p)' # ""
              THEN resp'[p].code = 400 /\ resp'[p].error = BodyError(p)'
              ELSE resp'[p].code = 403 /\ resp'[p].error = "forbidden"
           /\ UNCHANGED store
      ]_vars

\* user 2 asked to mark a recommendation of user 1's field applied and was
\* refused; the row is as the analyze left it
C19_Witness ==
    \E p \in Procs :
        /\ pc[p] = "done"
        /\ req[p].op = "patch"
        /\ req[p].uid = 2
        /\ req[p].status = "applied"
        /\ NonOwnerCall(p)
        /\ resp[p].error = "forbidden"
        /\ recs[req[p].rec_id].status = "suggested"

\* C20: no image row is committed for a round that is closed at the commit,
\* also when a forced start closes the round between the status check of
\* the upload and its commit.
C20_NoImageOnClosedRound ==
    [][\A id \in DOMAIN images :
        images'[id] # images[id]
        => id \in DOMAIN rounds' /\ rounds'[id].status = "pending"
      ]_vars

\* C21: the severity tier is a function of the confidence percentage alone:
\* severe from 85, moderate from 65 and below 85, mild below 65; 85.0 and
\* 65.0 are in the higher tier, 84.999 and 64.999 in the lower one.  It is
\* stated of every prediction the loops are given and of every entry of agg.
C21_SeverityTiers ==
    \A p \in Procs :
        /\ \A pr \in Range(Flatten(loc[p].results)) :
              LET x == pr.confidence * 100
                  t == severity_from_conf(x)
              IN /\ t = "severe" <=> x >= 8500000
                 /\ t = "moderate" <=> (x >= 6500000 /\ x < 8500000)
                 /\ t = "mild" <=> x < 6500000
        /\ \A i \in DOMAIN loc[p].agg :
              LET e == loc[p].agg[i]
              IN /\ e.max_sev = Tier(e.max_conf)
                 /\ e.max_conf = 8500000 => e.max_sev = "severe"
                 /\ e.max_conf = 8499900 => e.max_sev = "moderate"
                 /\ e.max_conf = 6500000 => e.max_sev = "moderate"
                 /\ e.max_conf = 6499900 => e.max_sev = "mild"

\* the loops have counted a code at 84.999 and another at 65.0
C21_Witness ==
    \E p \in Procs : \E i, j \in DOMAIN loc[p].agg :
        /\ pc[p] = "aggregate"
        /\ loc[p].agg[i].max_conf = 8499900
        /\ loc[p].agg[i].max_sev = "moderate"
        /\ loc[p].agg[j].max_conf = 6500000
        /\ loc[p].agg[j].max_sev = "moderate"

\* a successful analyze of worker p commits in this step
AnalyzeCommits(p) ==
    /\ req[p].op = "analyze"
    /\ pc[p] \in {"analyze_delete", "analyze_commit"}
    /\ pc'[p] = "done"
    /\ resp'[p].code = 200

\* the findings a response lists, without order
Listed(r) == {Content(r.findings[i]) : i \in DOMAIN r.findings}

\* C22: when an analyze of a round succeeds, the findings the round then has
\* are exactly those this run derived from its classifier output (the ones
\* its response lists): no finding of an earlier analyze survives unless
\* this run produced it again.
C22_FindingsRebuilt ==
    [][\A p \in Procs :
        AnalyzeCommits(p)
        => {Content(f) : f \in FindingsOf(findings', req[p].inspection_id)}
               = Listed(resp'[p])
      ]_vars

\* the nutrient codes of the aggregated findings of the call worker p serves
AggCodes(p) == {loc[p].agg[i].code : i \in DOMAIN loc[p].agg}

\* C23: no step of an analyze or backfill call deletes or changes a
\* recommendation row whose nutrient code is not among the call's aggregated
\* findings; such a row of an earlier analyze stays as it is.
C23_OtherRecsUntouched ==
    [][\A p \in Procs :
        (/\ req[p].op \in {"analyze", "backfill"}
         /\ pc[p] \notin {"idle", "done"}
         /\ pc'[p] # pc[p])
        => \A i \in DOMAIN recs :
              recs[i].nutrient_code \notin AggCodes(p)
              => i \in DOMAIN recs' /\ recs'[i] = recs[i]
      ]_vars

\* an analyze has succeeded on a round that has a recommendation for a code
\* this run did not detect
C23_Witness ==
    \E p \in Procs : \E i \in DOMAIN recs :
        /\ Answered(p, "analyze")
        /\ recs[i].inspection_id = req[p].inspection_id
        /\ recs[i].nutrient_code \notin AggCodes(p)

\* C24: an analyze whose read of the nutrient-code whitelist failed does
\* not answer success (and so commits no deletion of the round's findings):
\* every analyze that has answered success had read the whitelist.
C24_WhitelistFailureReported ==
    \A p \in Procs :
        (pc[p] = "done" /\ req[p].op = "analyze" /\ loc[p].imgs # <<>>
         /\ loc[p].valid_codes = {})
        => resp[p].code # 200

\* C25: with analyze calls of one round running concurrently, the committed
\* findings of the round change only when one of the calls commits, and they
\* are then the result of that call, one finding per nutrient code: never a
\* mixture of two results, and after both calls the result of the last one.
C25_LastCommitWins ==
    [][\A id \in 1..MaxRounds :
        FindingsOf(findings', id) # FindingsOf(findings, id)
        => \E p \in Procs :
              /\ AnalyzeCommits(p)
              /\ req[p].inspection_id = id
              /\ {Content(f) : f \in FindingsOf(findings', id)}
                     = Listed(resp'[p])
              /\ \A f, g \in FindingsOf(findings', id) :
                    f.nutrient_code = g.nutrient_code => f = g
      ]_vars

\* C26: a started round takes the number after the highest one of its
\* (field, zone), so that, however the start calls interleave, no two rounds
\* of one (field, zone) have the same round_no, and the numbers of a
\* (field, zone) begin at 1.
C26_RoundNoUnique ==
    /\ \A i, j \in DOMAIN rounds :
          (/\ rounds[i].field_id = rounds[j].field_id
           /\ rounds[i].zone_id = rounds[j].zone_id
           /\ rounds[i].round_no = rounds[j].round_no) => i = j
    /\ \A i \in DOMAIN rounds :
          \/ rounds[i].round_no = 1
          \/ \E j \in 1..(i - 1) :
                /\ rounds[j].field_id = rounds[i].field_id
                /\ rounds[j].zone_id = rounds[i].zone_id
                /\ rounds[j].round_no = rounds[i].round_no - 1

\* C27: an analyze whose classifier call does not return does not block for
\* ever: the request can end by itself (a time limit on the call), answering
\* a failure and leaving findings and recommendations as they are.
C27_AnalyzeTimesOut ==
    \A p \in Procs :
        pc[p] = "analyze_predict"
        => ENABLED (/\ Step(p)
                    /\ pc'[p] = "done"
                    /\ resp'[p].code # 200
                    /\ UNCHANGED <<findings, recs>>)

\* C28: when a forced start that has closed the open round R1 fails before
\* its new round exists, the operation is rolled back: the failure leaves R1
\* open and no round added.
C28_ForcedStartRolledBack ==
    [][\A p \in Procs :
        (/\ req[p].op = "start"
         /\ req[p].new_round
         /\ loc[p].exist # NoId
         /\ pc[p] \in {"start_max", "start_insert"}
         /\ pc'[p] = "done"
         /\ resp'[p].code # 200)
        => /\ rounds'[loc[p].exist].status = "pending"
           /\ DOMAIN rounds' = DOMAIN rounds
      ]_vars

\* the predictions the loops have taken so far
Taken(p) == SubSeq(Flatten(loc[p].results), 1, nreq)

\* C29: for every label and whitelist the resolver gives none or a member of
\* the whitelist; an empty label and a label that is, trimmed and in lower
\* case, one of normal, nomal, healthy, none give none also when the
\* whitelist holds the label; a label that is, trimmed and in lower case, in
\* the alias table gives its canonical code when whitelisted and none
\* otherwise.  Every code the loops count is in the whitelist.
C29_ResolverInWhitelist ==
    \A p \in Procs :
        LET vc == loc[p].valid_codes
        IN /\ \A pr \in Range(Flatten(loc[p].results)) :
                 LET c == _to_nutrient_code(pr.class, vc)
                     t == Lower(Strip(pr.class))
                     Canon(code) == IF code \in vc THEN code ELSE NULL
                 IN /\ c = NULL \/ c \in vc
                    /\ pr.class = "" => c = NULL
                    /\ t \in {"normal", "nomal", "healthy", "none"} => c = NULL
                    /\ t \in {"n", "nitrogen"} => c = Canon("N")
                    /\ t \in {"p", "phosphorus"} => c = Canon("P")
                    /\ t \in {"k", "potassium"} => c = Canon("K")
                    /\ t \in {"mg", "magnesium"} => c = Canon("Mg")
           /\ \A i \in DOMAIN loc[p].agg : loc[p].agg[i].code \in vc

\* the loops have taken a normal label that the whitelist holds and an
\* alias in another case: the first is skipped, the second counted as K
C29_Witness ==
    \E p \in Procs :
        /\ pc[p] = "aggregate"
        /\ "Healthy" \in loc[p].valid_codes
        /\ Pred("Healthy", 90000) \in Range(Taken(p))
        /\ Pred("POTASSIUM", 0) \in Range(Taken(p))
        /\ loc[p].skipped_normal = 1
        /\ \E i \in DOMAIN loc[p].agg : loc[p].agg[i].code = "K"

\* what the run resolves the k-th prediction taken to
CodeOfTaken(p, k) ==
    LET raw == Strip(Taken(p)[k].class)
    IN _to_nutrient_code(IF raw \in DOMAIN CLASS_ALIASES
                         THEN CLASS_ALIASES[raw] ELSE raw,
                         loc[p].valid_codes)

\* the predictions taken that resolve to a code; those that do not and
\* whose raw label is a normal token; the others
ResolvedAt(p) == {k \in 1..Len(Taken(p)) : CodeOfTaken(p, k) # NULL}
NormalAt(p) ==
    {k \in 1..Len(Taken(p)) :
        /\ CodeOfTaken(p, k) = NULL
        /\ Lower(Strip(Taken(p)[k].class))
               \in {"normal", "nomal", "healthy", "none"}}
UnknownAt(p) == (1..Len(Taken(p))) \ (ResolvedAt(p) \cup NormalAt(p))

\* C30: every prediction the loops have taken is counted once: in the
\* aggregate of the code it resolves to, in skipped_normal when its raw
\* label is a normal token, or with its raw label in unknown_labels; the
\* three counts add up to the number of predictions.
C30_ThreeBuckets ==
    \A p \in Procs :
        pc[p] = "aggregate"
        => /\ loc[p].skipped_normal = Cardinality(NormalAt(p))
           /\ Len(loc[p].unknown_labels) = Cardinality(UnknownAt(p))
           /\ \A k \in UnknownAt(p) :
                 \E i \in DOMAIN loc[p].unknown_labels :
                    loc[p].unknown_labels[i] = Strip(Taken(p)[k].class)
           /\ \A k \in ResolvedAt(p) :
                 \E i \in DOMAIN loc[p].agg :
                    /\ loc[p].agg[i].code = CodeOfTaken(p, k)
                    /\ loc[p].agg[i].max_conf >= Taken(p)[k].confidence * 100
           /\ \A i \in DOMAIN loc[p].agg :
                 \E k \in ResolvedAt(p) :
                    /\ loc[p].agg[i].code = CodeOfTaken(p, k)
                    /\ loc[p].agg[i].max_conf = Taken(p)[k].confidence * 100
           /\ loc[p].skipped_normal + Len(loc[p].unknown_labels)
                 + Cardinality(ResolvedAt(p)) = nreq

\* the loops have taken three predictions, one into each bucket
C30_Witness ==
    \E p \in Procs :
        /\ pc[p] = "aggregate"
        /\ nreq = 3
        /\ loc[p].skipped_normal = 1
        /\ Len(loc[p].unknown_labels) = 1
        /\ Len(loc[p].agg) = 1

\* no prediction of the run of worker p resolves to a nutrient code
NoneResolves(p) ==
    \A pr \in Range(Flatten(loc[p].results)) :
        LET raw == Strip(pr.class)
        IN _to_nutrient_code(IF raw \in DOMAIN CLASS_ALIASES
                             THEN CLASS_ALIASES[raw] ELSE raw,
                             loc[p].valid_codes) = NULL

\* C31: an analyze none of whose predictions resolves to a nutrient code
\* succeeds (unless a statement of the store fails, which changes nothing):
\* the round then has no finding, the response lists none, and the
\* recommendation table is as it was.
C31_EmptyResult ==
    [][\A p \in Procs :
        (/\ req[p].op = "analyze"
         /\ pc[p] = "analyze_delete"
         /\ NoneResolves(p)
         /\ pc'[p] # pc[p])
        => /\ pc'[p] = "done"
           /\ recs' = recs
           /\ \/ /\ resp'[p].code = 200
                 /\ resp'[p].findings = <<>>
                 /\ FindingsOf(findings', req[p].inspection_id) = {}
              \/ /\ resp'[p].error = "db_error"
                 /\ findings' = findings
      ]_vars

\* an analyze that resolved nothing has succeeded on a round that an
\* earlier analyze had given a recommendation: its findings are gone
C31_Witness ==
    \E p \in Procs : \E i \in DOMAIN recs :
        /\ Answered(p, "analyze")
        /\ NoneResolves(p)
        /\ loc[p].results # <<>>
        /\ recs[i].inspection_id = req[p].inspection_id
        /\ FindingsOf(findings, req[p].inspection_id) = {}

\* what the upsert is to store for a code, by the fertilizer table it read:
\* <<fertilizer reference, text>>.  In the table that begins with Urea 46,
\* rows 1 and 3 satisfy the rule of N, MOP that of K with a blank
\* description, none that of Mg or P; in the other, Potash (0-0-60)
\* satisfies K and Dolomite Mg, both with a description.
ExpectedRec(ferts, code) ==
    IF ferts[1].fert_name = "Urea 46"
    THEN CASE code = "N" -> <<1, "Urea: split into two doses">>
           [] code = "K" -> <<2, "fallback text K">>
           [] code = "Mg" -> <<0, "fallback text Mg">>
           [] code = "P" -> <<0, "fallback text P">>
    ELSE CASE code = "N" -> <<0, "fallback text N">>
           [] code = "K" -> <<2, "MOP: apply around the trunk">>
           [] code = "Mg" -> <<3, "Dolomite: broadcast and water">>
           [] code = "P" -> <<0, "fallback text P">>

\* an analyze or backfill of worker p commits its upsert in this step
UpsertCommits(p) ==
    /\ pc[p] \in {"analyze_commit", "backfill_commit"}
    /\ pc'[p] = "done"
    /\ resp'[p].code = 200

\* C32: for each aggregated code the upsert stores the first fertilizer, in
\* table order, that satisfies a rule of the code, or null; as text that
\* fertilizer's description when it is not blank, else the fallback text of
\* the code; a row that did not exist is inserted with status suggested and
\* no applied_date.
C32_UpsertStores ==
    [][\A p \in Procs :
        UpsertCommits(p)
        => /\ \A c \in AggCodes(p) :
                 \E j \in DOMAIN recs' :
                    /\ recs'[j].inspection_id = req[p].inspection_id
                    /\ recs'[j].nutrient_code = c
           /\ \A j \in DOMAIN recs' :
                 (/\ recs'[j].inspection_id = req[p].inspection_id
                  /\ recs'[j].nutrient_code \in AggCodes(p))
                 => LET e == ExpectedRec(loc[p].ferts, recs'[j].nutrient_code)
                    IN /\ recs'[j].fertilizer_id = e[1]
                       /\ recs'[j].recommendation_text = e[2]
                       /\ j \notin DOMAIN recs
                          => /\ recs'[j].status = "suggested"
                             /\ recs'[j].applied_date = NULL
      ]_vars

\* an analyze has stored a new recommendation for N from the table in which
\* two rows satisfy the rule of N, and one for K with the fallback text
C32_Witness ==
    \E p \in Procs : \E i, j \in DOMAIN recs :
        /\ Answered(p, "analyze")
        /\ Len(loc[p].ferts) = 3
        /\ loc[p].ferts[3].fertilizer_id = 4
        /\ recs[i].inspection_id = req[p].inspection_id
        /\ recs[i].nutrient_code = "N"
        /\ recs[i].fertilizer_id = 1
        /\ recs[i].status = "suggested"
        /\ recs[j].inspection_id = req[p].inspection_id
        /\ recs[j].nutrient_code = "K"
        /\ recs[j].recommendation_text = "fallback text K"

\* worker p holds the model that _load_model returned to it
HasModel(p) == pc[p] \in {"loaded", "predict_names"}

\* C33: however the requests that call _load_model interleave, the model is
\* constructed at most once in the process, and the callers get the same
\* model object.
C33_ModelLoadedOnce ==
    /\ loads <= 1
    /\ \A p, q \in Procs :
          HasModel(p) /\ HasModel(q) => loc[p].model = loc[q].model

\* C35: whenever a caller of _load_model has obtained the model, the
\* class-name table and the device are set, and a prediction is never
\* labelled with the index of its class.
C35_NamesSetWithModel ==
    \A p \in Procs :
        /\ HasModel(p) => _MODEL_NAMES # None /\ _DEVICE # None
        /\ pc[p] = "predict_names" => loc[p].device # None
        /\ pc[p] = "done" => resp[p].classes # "index"

\* a recommendation row without the two fields of the operator
Advice(r) ==
    <<r.inspection_id, r.fertilizer_id, r.nutrient_code, r.recommendation_text,
      r.rate_per_area, r.application_method>>

\* C34: a successful patch changes the status and applied_date of the row
\* it names and nothing else: the other fields of the row, every other
\* recommendation row, the rounds, the images and the findings stay.
C34_SetStatusFrame ==
    [][\A p \in Procs :
        (/\ Begins(p)
         /\ req'[p].op = "patch"
         /\ resp'[p].code = 200)
        => /\ DOMAIN recs' = DOMAIN recs
           /\ \A j \in DOMAIN recs :
                 IF j = req'[p].rec_id
                 THEN Advice(recs'[j]) = Advice(recs[j])
                 ELSE recs'[j] = recs[j]
           /\ UNCHANGED <<rounds, images, findings>>
      ]_vars

\* a patch has set a row to applied while another recommendation of the
\* same round is still suggested
C34_Witness ==
    \E p \in Procs : \E j \in DOMAIN recs :
        /\ Answered(p, "patch")
        /\ j # req[p].rec_id
        /\ recs[j].inspection_id = recs[req[p].rec_id].inspection_id
        /\ recs[req[p].rec_id].status = "applied"
        /\ recs[j].status = "suggested"

\* C36: however a patch of a recommendation interleaves with an analyze or
\* backfill of its round that updates the row, the row ends with the status
\* and applied_date of the patch: the commit of a patch writes them whatever
\* is in progress, and the commit of an upsert leaves the status and
\* applied_date of every existing row as they are committed at that moment.
C36_PatchSurvivesUpsert ==
    [][\A p \in Procs :
        /\ UpsertCommits(p)
           => \A j \in DOMAIN recs :
                 /\ recs'[j].status = recs[j].status
                 /\ recs'[j].applied_date = recs[j].applied_date
        /\ (Begins(p) /\ req'[p].op = "patch" /\ resp'[p].code = 200)
           => LET r == req'[p].rec_id
                  st == StatusNamed(req'[p].status)
              IN /\ recs'[r].status = st
                 /\ recs'[r].applied_date =
                        IF st # "applied" THEN "NULL"
                        ELSE IF req'[p].applied_date = "" THEN "today"
                        ELSE req'[p].applied_date
      ]_vars

\* an analyze and a patch were in progress together; the patch set row 1
\* to applied on 2025-09-01, the analyze has committed its UPDATE of row 1,
\* and the row is as the patch left it
C36_Witness ==
    \E p, q \in Procs :
        /\ Answered(p, "analyze")
        /\ \E k \in DOMAIN loc[p].rec_ops :
               loc[p].rec_ops[k].recommendation_id = 1
        /\ Answered(q, "patch")
        /\ req[q].rec_id = 1
        /\ req[q].applied_date = "2025-09-01"
        /\ recs[1].status = "applied"
        /\ recs[1].applied_date = "2025-09-01"

\* C37: the severity of every stored finding is the tier of the confidence
\* stored with it (severe from 85, moderate from 65, else mild).
C37_StoredPairConsistent ==
    \A f \in findings :
        f.severity = (IF f.confidence >= 85 * 100000 THEN "severe"
                      ELSE IF f.confidence >= 65 * 100000 THEN "moderate"
                      ELSE "mild")

\* C38: the status of a round only moves from open to closed: a closed
\* round is never opened again, and an open round is closed only by the
\* closing step of a forced start on the round's own (field, zone).
C38_StatusMonotonic ==
    [][\A i \in DOMAIN rounds :
        /\ i \in DOMAIN rounds'
        /\ rounds[i].status = "completed" => rounds'[i].status = "completed"
        /\ (rounds[i].status = "pending" /\ rounds'[i].status # "pending")
           => /\ rounds'[i].status = "completed"
              /\ \E p \in Procs :
                    /\ req[p].op = "start"
                    /\ req[p].new_round
                    /\ req[p].field_id = rounds[i].field_id
                    /\ req[p].zone_id = rounds[i].zone_id
                    /\ pc[p] = "start_close"
                    /\ pc'[p] = "start_max"
      ]_vars

\* round 1 was closed by a forced start, an analyze of round 1 has
\* answered since, and round 1 is closed while a round of another zone is
\* open
C38_Witness ==
    \E p \in Procs : \E j \in DOMAIN rounds :
        /\ Len(rounds) >= 2
        /\ rounds[1].status = "completed"
        /\ pc[p] = "done"
        /\ req[p].op \in {"analyze", "upload"}
        /\ req[p].inspection_id = 1
        /\ rounds[j].status = "pending"

\* a step in which worker p commits a backfill and answers 200
BackfillCommits(p) ==
    /\ pc[p] = "backfill_commit"
    /\ pc'[p] = "done"
    /\ resp'[p].code = 200

\* the nutrient codes of the findings stored for round id
StoredCodes(id) == {f.nutrient_code : f \in FindingsOf(findings, id)}

\* C39: a backfill that commits leaves findings, images and rounds as they
\* were; afterwards every code of the round's stored findings has a
\* recommendation row carrying the fertilizer and text derived from the
\* fertilizer table the call read, a row being added only for a code that
\* had none; every earlier row keeps its status and applied_date and rows
\* of other rounds or codes are untouched; with no findings nothing
\* changes; and the same call made again at once changes nothing more.
C39_BackfillDerives ==
    [][\A p \in Procs : BackfillCommits(p) =>
        LET id == req[p].inspection_id
            ferts == loc[p].ferts
            missing == {c \in StoredCodes(id) : ExistingRec(recs, id, c) = NoId}
        IN /\ findings' = findings
           /\ images' = images
           /\ rounds' = rounds
           /\ \A c \in StoredCodes(id) :
                LET i == ExistingRec(recs', id, c)
                IN /\ i # NoId
                   /\ recs'[i].fertilizer_id = _match_fertilizer_id(ferts, c)
                   /\ recs'[i].recommendation_text = rec_text(ferts, c)
           /\ Len(recs') = Len(recs) + Cardinality(missing)
           /\ \A i \in DOMAIN recs :
                /\ recs'[i].status = recs[i].status
                /\ recs'[i].applied_date = recs[i].applied_date
                /\ (recs[i].inspection_id # id
                      \/ recs[i].nutrient_code \notin StoredCodes(id))
                   => recs'[i] = recs[i]
           /\ StoredCodes(id) = {} => recs' = recs
           /\ ApplyRecOps(recs',
                  _upsert_recommendations(ferts, recs', id,
                      BackfillAgg(FindingsOf(findings', id)))) = recs'
      ]_vars

\* a backfill has answered 200 with a code, on a round one of whose
\* recommendations is applied with a date
C39_Witness ==
    \E p \in Procs : \E i \in DOMAIN recs :
        /\ pc[p] = "done"
        /\ req[p].op = "backfill"
        /\ resp[p].code = 200
        /\ resp[p].updated_codes # <<>>
        /\ recs[i].inspection_id = req[p].inspection_id
        /\ recs[i].status = "applied"
        /\ recs[i].applied_date # NULL

\* C40: the zone of every round is a zone of the round's field.
C40_ZoneOfField ==
    \A i \in DOMAIN rounds :
        /\ rounds[i].zone_id \in DOMAIN zone
        /\ zone[rounds[i].zone_id] = rounds[i].field_id

====
